---- MODULE Spec2Model ----
(***************************************************************************)
(* Admin onboarding service of the event-management platform:              *)
(* src/services/adminOnboardingService.js (validateInvitationCode ..       *)
(* onboardAdmin), utils/errors.js and the PostgreSQL stores it talks to.   *)
(*                                                                         *)
(* Every request runs as its own asynchronous unit of work.  Each          *)
(* `await` of a database statement is one atomic step of the request; the  *)
(* steps of different requests interleave freely.  Statements sent through *)
(* pool.query see committed data only; the statements of the onboarding    *)
(* transaction (client.query between BEGIN and COMMIT) are staged per      *)
(* request and become visible at COMMIT (READ COMMITTED).  Faults of the   *)
(* storage layer itself (a lost connection, a statement that errors for a  *)
(* reason other than a constraint) are part of the specifications whose    *)
(* next-state relation names a fault action.                               *)
(***************************************************************************)
EXTENDS Integers, FiniteSets, Sequences, TLC

(***************************************************************************)
(* Bounds of the model.                                                    *)
(***************************************************************************)
\* The clock runs from 0 to MaxNow.
MaxNow == 1

\* The requests of one behaviour; each runs onboardAdmin once, concurrently
\* with the other.
Procs == {"r1", "r2"}

(***************************************************************************)
(* Reference stores (read-only for this service).                          *)
(***************************************************************************)
Role == {1, 2}
Branch == {1}

(***************************************************************************)
(* Values a validated candidate can carry.                                 *)
(***************************************************************************)
NoBranch == 0
NULL == 0
\* A timestamp column that holds no value.
NoTime == -1
StudentIDs == {"CS001", "CS002"}
Emails == {"a@x.org", "b@x.org"}
CodeStrings == {"INVITE01", "INVITE02", "UNKNOWN9"}
RoleIDs == {1, 2, 3}
BranchIDs == {NoBranch, 1, 2}
Passwords == {"Passw0rd@1"}
Salts == {"salt1"}

\* Two valid passwords of 72 and of 73 characters that agree on the first 72.
Long72 == "Aa1@xxxxxxxxxxxxxxxxxxxxxxxxxxxxxxxxxxxxxxxxxxxxxxxxxxxxxxxxxxxxxxxxxxxx"
Long73 == "Aa1@xxxxxxxxxxxxxxxxxxxxxxxxxxxxxxxxxxxxxxxxxxxxxxxxxxxxxxxxxxxxxxxxxxxxy"
\* bcrypt reads the first 72 bytes of the password it is given.
Bytes72(password) == IF password = Long73 THEN Long72 ELSE password

\* A field a patch does not carry (undefined) reads as falsy.
Absent == ""
Patches ==
  [ fullName : {Absent, "Jane Roe"}, phone : {Absent, "+922"},
    password : {Absent, "N3wpass@2"}, oldPassword : {Absent, "Passw0rd@1"} ]
\* AdminIDs an update request can name: those the sequence hands out, and 9.
AdminIDs == {1, 2, 9}

Candidates ==
  [ invitationCode : CodeStrings, studentID : StudentIDs, email : Emails,
    roleID : RoleIDs, branchID : BranchIDs, password : Passwords,
    fullName : {"John Doe"}, phone : {"+911"} ]

(***************************************************************************)
(* utils/errors.js: an APIError carries an HTTP status and an error code.  *)
(***************************************************************************)
APIError(statusCode, errorCode) ==
  [kind |-> "error", statusCode |-> statusCode, errorCode |-> errorCode]

createValidationError(errorCode) == APIError(400, errorCode)
createNotFoundError(errorCode) == APIError(404, errorCode)
createConflictError(errorCode) == APIError(409, errorCode)
createServerError(errorCode) == APIError(500, errorCode)
createUnauthorizedError(errorCode) == APIError(401, errorCode)
createForbiddenError(errorCode) == APIError(403, errorCode)

\* constants/errorCodes.js: the codes an APIError can carry.
ERROR_CODES ==
  { "INVALID_INPUT", "MISSING_FIELD", "INVALID_EMAIL", "INVALID_PASSWORD",
    "INVALID_GRADUATION_YEAR", "INVALID_PHONE", "UNAUTHORIZED", "FORBIDDEN",
    "DUPLICATE_STUDENT_ID", "DUPLICATE_EMAIL", "INVALID_ROLE", "INVALID_BRANCH",
    "INVALID_INVITATION_CODE", "INVITATION_CODE_INACTIVE", "INVITATION_CODE_EXPIRED",
    "INVITATION_CODE_ALREADY_USED", "DATABASE_ERROR", "TRANSACTION_FAILED",
    "INTERNAL_ERROR" }

\* An APIError together with the message it was constructed with, where the
\* message matters.
WithMessage(error, message) ==
  [ kind |-> error.kind, statusCode |-> error.statusCode,
    errorCode |-> error.errorCode, message |-> message ]

\* Errors that are not APIErrors: the driver's error for a unique-constraint
\* violation (SQLSTATE 23505), and a plain `new Error(...)`.
PgUniqueViolation == [kind |-> "pg", code |-> "23505"]
JsError == [kind |-> "js"]

\* middleware/errorHandler.js globalErrorHandler: the response sent for an
\* error passed to next().
globalErrorHandler(err) ==
  IF err.kind = "error" /\ "message" \in DOMAIN err
    THEN [status |-> err.statusCode, code |-> err.errorCode, message |-> err.message]
  ELSE IF err.kind = "error"
    THEN [status |-> err.statusCode, code |-> err.errorCode]
  ELSE IF err.kind = "pg" /\ err.code = "23505"
    THEN [status |-> 409, code |-> "DATABASE_ERROR"]
  ELSE IF err.kind = "pg" /\ err.code = "23503"
    THEN [status |-> 400, code |-> "DATABASE_ERROR"]
  ELSE [status |-> 500, code |-> "INTERNAL_ERROR"]

NoResult == [kind |-> "none"]
NoRow == [CodeID |-> NULL]
NoAdmin == [AdminID |-> NULL]
NoHash == [salt |-> "", digest |-> << >>]
\* No login or update request has been made.
NoCall == [op |-> "none"]

VARIABLES
  Admin,           \* committed rows of the "Admin" table
  InvitationCode,  \* committed rows of "InvitationCode", by CodeID
  nextAdminID,     \* the AdminID sequence
  now,             \* the clock read by new Date()
  pc,              \* each request's position in onboardAdmin
  validatedData,   \* each request's candidate (req.validated)
  invitationCode,  \* the row validateInvitationCode returned to the request
  passwordHash,    \* the hash computed in step 7
  createdAdmin,    \* the row inserted, uncommitted, by the request's transaction
  codeLocked,      \* the CodeID updated, uncommitted, by the request's transaction
  txError,         \* the error caught by createAdminWithTransaction's catch block
  rollbackError,   \* the error the catch block's own ROLLBACK threw, if any
  client,          \* what the request did with its pooled connection, in order
  result,          \* what onboardAdmin returned or threw
  JWT_SECRET,      \* process.env.JWT_SECRET as read at start-up
  res,             \* the HTTP response sent to each onboarding request
  call             \* the login and profile-update requests: the last one and its
                   \* response, or those in flight with their locals and answers

vars == << Admin, InvitationCode, nextAdminID, now, pc, validatedData,
           invitationCode, passwordHash, createdAdmin, codeLocked, txError,
           rollbackError, client, result, JWT_SECRET, res, call >>

dbVars == << Admin, InvitationCode, nextAdminID >>
txVars == << createdAdmin, codeLocked, txError, rollbackError, client >>
apiVars == << JWT_SECRET, res, call >>

(***************************************************************************)
(* The stores after the out-of-band setup: two eligible codes, one bound   *)
(* to each role; INVITE02 expires at time 0 (eligible while now <= 0).     *)
(***************************************************************************)
CodeRow(id, code, role, active, used, expires, usedBy) ==
  [ CodeID |-> id, Code |-> code, RoleID |-> role, IsActive |-> active,
    IsUsed |-> used, ExpiresAt |-> expires, UsedByAdminID |-> usedBy ]

InitialCodes ==
  (1 :> CodeRow(1, "INVITE01", 1, TRUE, FALSE, NoTime, NULL)) @@
  (2 :> CodeRow(2, "INVITE02", 2, TRUE, FALSE, 0, NULL))

\* No request has arrived yet (validatedData of an idle slot is a placeholder).
InitProcs ==
  /\ pc = [p \in Procs |-> "idle"]
  /\ validatedData = [p \in Procs |-> CHOOSE c \in Candidates : TRUE]
  /\ invitationCode = [p \in Procs |-> NoRow]
  /\ passwordHash = [p \in Procs |-> NoHash]
  /\ createdAdmin = [p \in Procs |-> NoAdmin]
  /\ codeLocked = [p \in Procs |-> NULL]
  /\ txError = [p \in Procs |-> NoResult]
  /\ rollbackError = [p \in Procs |-> NoResult]
  /\ client = [p \in Procs |-> << >>]
  /\ result = [p \in Procs |-> NoResult]
  /\ res = [p \in Procs |-> NoResult]
  /\ call = NoCall

Init ==
  /\ Admin = {}
  /\ InvitationCode = InitialCodes
  /\ nextAdminID = 1
  /\ now = 0
  /\ JWT_SECRET = "s3cret"
  /\ InitProcs

(***************************************************************************)
(* Step 1: validateInvitationCode.                                         *)
(***************************************************************************)
\* The lookup without its JOIN: the code row whatever its RoleID refers to.
SelectInvitationCodeNoJoin(codes, code) ==
  { codes[i] : i \in { j \in DOMAIN codes : codes[j].Code = code } }

\* SELECT ... FROM "InvitationCode" ic JOIN "Role" r ... WHERE ic."Code" = $1
SelectInvitationCode(codes, code) ==
  { codes[i] : i \in { j \in DOMAIN codes :
                         codes[j].Code = code /\ codes[j].RoleID \in Role } }

\* CheckInvitationCode with a code taken as expired from its expiry time on.
CheckInvitationCodeExpiredAtExpiry(rows, t) ==
  IF rows = {} THEN createNotFoundError("INVALID_INVITATION_CODE")
  ELSE LET ic == CHOOSE r \in rows : TRUE IN
    IF ~ic.IsActive THEN createValidationError("INVITATION_CODE_INACTIVE")
    ELSE IF ic.IsUsed THEN createValidationError("INVITATION_CODE_ALREADY_USED")
    ELSE IF ic.ExpiresAt # NoTime /\ ic.ExpiresAt <= t
      THEN createValidationError("INVITATION_CODE_EXPIRED")
    ELSE NoResult

\* CheckInvitationCode with the used flag tested before the active flag.
CheckInvitationCodeUsedFirst(rows, t) ==
  IF rows = {} THEN createNotFoundError("INVALID_INVITATION_CODE")
  ELSE LET ic == CHOOSE r \in rows : TRUE IN
    IF ic.IsUsed THEN createValidationError("INVITATION_CODE_ALREADY_USED")
    ELSE IF ~ic.IsActive THEN createValidationError("INVITATION_CODE_INACTIVE")
    ELSE IF ic.ExpiresAt # NoTime /\ ic.ExpiresAt < t
      THEN createValidationError("INVITATION_CODE_EXPIRED")
    ELSE NoResult

\* CheckInvitationCode without the test of the used flag.
CheckInvitationCodeSkipsUsed(rows, t) ==
  IF rows = {} THEN createNotFoundError("INVALID_INVITATION_CODE")
  ELSE LET ic == CHOOSE r \in rows : TRUE IN
    IF ~ic.IsActive THEN createValidationError("INVITATION_CODE_INACTIVE")
    ELSE IF ic.ExpiresAt # NoTime /\ ic.ExpiresAt < t
      THEN createValidationError("INVITATION_CODE_EXPIRED")
    ELSE NoResult

\* The checks on the row read, in the order of the code; the value is the
\* error thrown, or NoResult when the row is returned.
CheckInvitationCode(rows, t) ==
  IF rows = {} THEN createNotFoundError("INVALID_INVITATION_CODE")
  ELSE LET ic == CHOOSE r \in rows : TRUE IN
    IF ~ic.IsActive THEN createValidationError("INVITATION_CODE_INACTIVE")
    ELSE IF ic.IsUsed THEN createValidationError("INVITATION_CODE_ALREADY_USED")
    ELSE IF ic.ExpiresAt # NoTime /\ ic.ExpiresAt < t
      THEN createValidationError("INVITATION_CODE_EXPIRED")
    ELSE NoResult

\* A request that throws: the error is what its caller receives.
Throw(p, error) ==
  /\ pc' = [pc EXCEPT ![p] = "failed"]
  /\ result' = [result EXCEPT ![p] = error]

\* validateInvitationCode marking the code used as soon as it has validated
\* it, instead of leaving that to the transaction.
ValidateInvitationCodeConsumes(p) ==
  /\ pc[p] = "idle"
  /\ \E cand \in Candidates :
       LET rows == SelectInvitationCode(InvitationCode, cand.invitationCode)
           error == CheckInvitationCode(rows, now)
       IN /\ validatedData' = [validatedData EXCEPT ![p] = cand]
          /\ IF error # NoResult
               THEN /\ Throw(p, error)
                    /\ UNCHANGED << invitationCode, InvitationCode >>
               ELSE /\ pc' = [pc EXCEPT ![p] = "roleMatch"]
                    /\ invitationCode' =
                         [invitationCode EXCEPT ![p] = CHOOSE r \in rows : TRUE]
                    /\ InvitationCode' =
                         [InvitationCode EXCEPT
                            ![(CHOOSE r \in rows : TRUE).CodeID] = [@ EXCEPT !.IsUsed = TRUE]]
                    /\ UNCHANGED result
  /\ UNCHANGED << Admin, nextAdminID, now, passwordHash, txVars, apiVars >>

\* A new request arrives with its validated candidate and onboardAdmin
\* awaits the invitation-code lookup.
ValidateInvitationCode(p) ==
  /\ pc[p] = "idle"
  /\ \E cand \in Candidates :
       LET rows == SelectInvitationCode(InvitationCode, cand.invitationCode)
           error == CheckInvitationCode(rows, now)
       IN /\ validatedData' = [validatedData EXCEPT ![p] = cand]
          /\ IF error # NoResult
               THEN /\ Throw(p, error)
                    /\ UNCHANGED invitationCode
               ELSE /\ pc' = [pc EXCEPT ![p] = "roleMatch"]
                    /\ invitationCode' =
                         [invitationCode EXCEPT ![p] = CHOOSE r \in rows : TRUE]
                    /\ UNCHANGED result
  /\ UNCHANGED << dbVars, now, passwordHash, txVars, apiVars >>

(***************************************************************************)
(* Step 2: the submitted role must be the role bound to the code.          *)
(***************************************************************************)
\* The role check reduced to "the submitted role is a known role".
RoleMatchesAnyKnownRole(data, ic) == data.roleID \in Role

RoleMatches(data, ic) == data.roleID = ic.RoleID

RoleMatch(p) ==
  /\ pc[p] = "roleMatch"
  /\ IF ~RoleMatches(validatedData[p], invitationCode[p])
       THEN Throw(p, createValidationError("INVALID_ROLE"))
       ELSE /\ pc' = [pc EXCEPT ![p] = "checkStudentID"]
            /\ UNCHANGED result
  /\ UNCHANGED << dbVars, now, validatedData, invitationCode, passwordHash, txVars, apiVars >>

(***************************************************************************)
(* Steps 3 and 4: the optimistic uniqueness probes.                        *)
(***************************************************************************)
checkStudentIDExists(admins, studentID) ==
  \E a \in admins : a.StudentID = studentID

checkEmailExists(admins, email) ==
  \E a \in admins : a.Email = email

CheckStudentID(p) ==
  /\ pc[p] = "checkStudentID"
  /\ IF checkStudentIDExists(Admin, validatedData[p].studentID)
       THEN Throw(p, createConflictError("DUPLICATE_STUDENT_ID"))
       ELSE /\ pc' = [pc EXCEPT ![p] = "checkEmail"]
            /\ UNCHANGED result
  /\ UNCHANGED << dbVars, now, validatedData, invitationCode, passwordHash, txVars, apiVars >>

CheckEmail(p) ==
  /\ pc[p] = "checkEmail"
  /\ IF checkEmailExists(Admin, validatedData[p].email)
       THEN Throw(p, createConflictError("DUPLICATE_EMAIL"))
       ELSE /\ pc' = [pc EXCEPT ![p] = "validateRole"]
            /\ UNCHANGED result
  /\ UNCHANGED << dbVars, now, validatedData, invitationCode, passwordHash, txVars, apiVars >>

(***************************************************************************)
(* Steps 5 and 6: the reference validators.                                *)
(***************************************************************************)
validateRole(roleID) ==
  IF roleID \notin Role THEN createValidationError("INVALID_ROLE") ELSE NoResult

\* validateBranch with the result of its lookup ignored.
validateBranchIgnoresLookup(branchID) == NoResult

validateBranch(branchID) ==
  IF branchID = NoBranch THEN NoResult
  ELSE IF branchID \notin Branch THEN createValidationError("INVALID_BRANCH")
  ELSE NoResult

\* The statements step 6 sends to the Branch store for a candidate: none
\* when the candidate has no branch identifier.
validateBranchQueries(branchID) ==
  IF branchID = NoBranch THEN << >> ELSE << "SELECT Branch" >>

ValidateRole(p) ==
  /\ pc[p] = "validateRole"
  /\ LET error == validateRole(validatedData[p].roleID) IN
       IF error # NoResult
         THEN Throw(p, error)
         ELSE /\ pc' = [pc EXCEPT ![p] = "validateBranch"]
              /\ UNCHANGED result
  /\ UNCHANGED << dbVars, now, validatedData, invitationCode, passwordHash, txVars, apiVars >>

ValidateBranch(p) ==
  /\ pc[p] = "validateBranch"
  /\ LET error == IF validatedData[p].branchID # NoBranch
                    THEN validateBranch(validatedData[p].branchID)
                    ELSE NoResult
     IN IF error # NoResult
          THEN Throw(p, error)
          ELSE /\ pc' = [pc EXCEPT ![p] = "hashPassword"]
               /\ UNCHANGED result
  /\ UNCHANGED << dbVars, now, validatedData, invitationCode, passwordHash, txVars, apiVars >>

(***************************************************************************)
(* Step 7: bcrypt.hash draws a salt; the digest is a function of the salt  *)
(* and the password.                                                       *)
(***************************************************************************)
bcryptHash(password, salt) ==
  [salt |-> salt, digest |-> << salt, Bytes72(password) >>]

HashPassword(p) ==
  /\ pc[p] = "hashPassword"
  /\ \E salt \in Salts :
       passwordHash' =
         [passwordHash EXCEPT ![p] = bcryptHash(validatedData[p].password, salt)]
  /\ pc' = [pc EXCEPT ![p] = "connect"]
  /\ UNCHANGED << dbVars, now, validatedData, invitationCode, txVars, apiVars, result >>

(***************************************************************************)
(* Step 8: createAdminWithTransaction.                                     *)
(*                                                                         *)
(* The storage layer (PostgreSQL, READ COMMITTED).  A row inserted or      *)
(* updated inside a transaction is invisible to others until COMMIT.  An   *)
(* INSERT that collides on a unique key with the uncommitted row of an     *)
(* open transaction waits for it; an UPDATE of a row another open          *)
(* transaction has updated waits for that transaction's row lock.          *)
(***************************************************************************)
InTx(q) == pc[q] \in {"insert", "update", "commit", "rollback"}

\* An "Admin" table created without its unique constraints.
UniqueViolationNotEnforced(admins, row) == FALSE

\* The unique constraints of "Admin": ("StudentID") and ("Email").
UniqueViolation(admins, row) ==
  \E a \in admins : a.StudentID = row.StudentID \/ a.Email = row.Email

\* Uncommitted inserts of the other open transactions.
PendingAdmins(p) ==
  { createdAdmin[q] : q \in { r \in Procs \ {p} : InTx(r) /\ createdAdmin[r] # NoAdmin } }

\* adminValues: the row the INSERT writes.  "UpdatedAt" is not in its column
\* list and holds no value until updateAdmin sets it.
AdminRow(id, data, hash) ==
  [ AdminID |-> id, StudentID |-> data.studentID, FullName |-> data.fullName,
    Email |-> data.email, PasswordHash |-> hash, Phone |-> data.phone,
    RoleID |-> data.roleID,
    BranchID |-> IF data.branchID # NoBranch THEN data.branchID ELSE NULL,
    InvitationCode |-> data.invitationCode, UpdatedAt |-> NoTime ]

\* RETURNING * in place of the column list.
ReturningEveryColumn(row) == row

\* The RETURNING list of the INSERT: the password hash is not among it.
Returning(row) ==
  [ AdminID |-> row.AdminID, StudentID |-> row.StudentID, FullName |-> row.FullName,
    Email |-> row.Email, Phone |-> row.Phone, RoleID |-> row.RoleID,
    BranchID |-> row.BranchID ]

\* The request sends `op` over its pooled connection (or, for "connect" and
\* "release", takes the connection from the pool and gives it back).
Issue(p, op) == client' = [client EXCEPT ![p] = Append(@, op)]

\* const client = await pool.connect()
Connect(p) ==
  /\ pc[p] = "connect"
  /\ Issue(p, "connect")
  /\ pc' = [pc EXCEPT ![p] = "begin"]
  /\ UNCHANGED << dbVars, now, validatedData, invitationCode, passwordHash,
                  createdAdmin, codeLocked, txError, rollbackError, apiVars, result >>

\* await client.query('BEGIN')
Begin(p) ==
  /\ pc[p] = "begin"
  /\ Issue(p, "BEGIN")
  /\ pc' = [pc EXCEPT ![p] = "insert"]
  /\ UNCHANGED << dbVars, now, validatedData, invitationCode, passwordHash,
                  createdAdmin, codeLocked, txError, rollbackError, apiVars, result >>

\* await client.query(adminQuery, adminValues): the sequence hands out the
\* AdminID, the unique constraints are checked, the row is staged.  A
\* violation throws into the catch block.
InsertAdmin(p) ==
  /\ pc[p] = "insert"
  /\ LET row == AdminRow(nextAdminID, validatedData[p], passwordHash[p]) IN
       /\ ~UniqueViolation(PendingAdmins(p), row)
       /\ nextAdminID' = nextAdminID + 1
       /\ IF UniqueViolation(Admin, row)
            THEN /\ txError' = [txError EXCEPT ![p] = PgUniqueViolation]
                 /\ pc' = [pc EXCEPT ![p] = "rollback"]
                 /\ UNCHANGED createdAdmin
            ELSE /\ createdAdmin' = [createdAdmin EXCEPT ![p] = row]
                 /\ pc' = [pc EXCEPT ![p] = "update"]
                 /\ UNCHANGED txError
  /\ Issue(p, "INSERT")
  /\ UNCHANGED << Admin, InvitationCode, now, validatedData, invitationCode,
                  passwordHash, codeLocked, rollbackError, apiVars, result >>

\* UPDATE "InvitationCode" SET ... WHERE "CodeID" = $2: the rows the WHERE
\* clause selects.
UpdateCodeRows(codes, codeID) == { i \in DOMAIN codes : codes[i].CodeID = codeID }

\* SET "IsUsed" = TRUE, "UsedByAdminID" = $1
MarkUsed(row, adminID) == [row EXCEPT !.IsUsed = TRUE, !.UsedByAdminID = adminID]

\* await client.query(updateCodeQuery, [createdAdmin.AdminID, CodeID])
UpdateCode(p) ==
  /\ pc[p] = "update"
  /\ LET rows == UpdateCodeRows(InvitationCode, invitationCode[p].CodeID) IN
       /\ \A q \in Procs \ {p} : ~(InTx(q) /\ codeLocked[q] \in rows)
       /\ IF rows = {}
            THEN /\ txError' = [txError EXCEPT ![p] = JsError]
                 /\ pc' = [pc EXCEPT ![p] = "rollback"]
                 /\ UNCHANGED codeLocked
            ELSE /\ codeLocked' = [codeLocked EXCEPT ![p] = invitationCode[p].CodeID]
                 /\ pc' = [pc EXCEPT ![p] = "commit"]
                 /\ UNCHANGED txError
  /\ Issue(p, "UPDATE")
  /\ UNCHANGED << dbVars, now, validatedData, invitationCode, passwordHash,
                  createdAdmin, rollbackError, apiVars, result >>

\* await client.query('COMMIT'): the staged insert and update become visible
\* together.
Commit(p) ==
  /\ pc[p] = "commit"
  /\ Admin' = Admin \cup {createdAdmin[p]}
  /\ InvitationCode' =
       [InvitationCode EXCEPT
          ![codeLocked[p]] = MarkUsed(@, createdAdmin[p].AdminID)]
  /\ Issue(p, "COMMIT")
  /\ pc' = [pc EXCEPT ![p] = "release"]
  /\ UNCHANGED << nextAdminID, now, validatedData, invitationCode, passwordHash,
                  createdAdmin, codeLocked, txError, rollbackError, apiVars, result >>

\* A rollback that undoes the insert and leaves the update of the
\* invitation code in place.
RollbackKeepsCodeUpdate(p) ==
  /\ pc[p] = "rollback"
  /\ InvitationCode' =
       IF codeLocked[p] # NULL
         THEN [InvitationCode EXCEPT
                 ![codeLocked[p]] = MarkUsed(@, createdAdmin[p].AdminID)]
         ELSE InvitationCode
  /\ createdAdmin' = [createdAdmin EXCEPT ![p] = NoAdmin]
  /\ codeLocked' = [codeLocked EXCEPT ![p] = NULL]
  /\ Issue(p, "ROLLBACK")
  /\ pc' = [pc EXCEPT ![p] = "release"]
  /\ UNCHANGED << Admin, nextAdminID, now, validatedData, invitationCode,
                  passwordHash, txError, rollbackError, apiVars, result >>

\* A catch block that sends COMMIT where it should send ROLLBACK: the staged
\* insert becomes visible.
RollbackCommitsInsert(p) ==
  /\ pc[p] = "rollback"
  /\ Admin' = IF createdAdmin[p] # NoAdmin THEN Admin \cup {createdAdmin[p]} ELSE Admin
  /\ createdAdmin' = [createdAdmin EXCEPT ![p] = NoAdmin]
  /\ codeLocked' = [codeLocked EXCEPT ![p] = NULL]
  /\ Issue(p, "ROLLBACK")
  /\ pc' = [pc EXCEPT ![p] = "release"]
  /\ UNCHANGED << InvitationCode, nextAdminID, now, validatedData, invitationCode,
                  passwordHash, txError, rollbackError, apiVars, result >>

\* catch: await client.query('ROLLBACK'): the staged writes are discarded.
Rollback(p) ==
  /\ pc[p] = "rollback"
  /\ createdAdmin' = [createdAdmin EXCEPT ![p] = NoAdmin]
  /\ codeLocked' = [codeLocked EXCEPT ![p] = NULL]
  /\ Issue(p, "ROLLBACK")
  /\ pc' = [pc EXCEPT ![p] = "release"]
  /\ UNCHANGED << dbVars, now, validatedData, invitationCode, passwordHash,
                  txError, rollbackError, apiVars, result >>

\* What the catch block throws for the error it caught, whatever it was.
TransactionError(error) == createServerError("TRANSACTION_FAILED")

\* What leaves createAdminWithTransaction: nothing when the try block ran to
\* its end; the error of the catch block's ROLLBACK when that statement
\* threw; otherwise the TRANSACTION_FAILED error the catch block builds.
Thrown(p) ==
  IF txError[p] = NoResult THEN NoResult
  ELSE IF rollbackError[p] # NoResult THEN rollbackError[p]
  ELSE TransactionError(txError[p])

\* A catch block that rolls back and releases but does not rethrow.
ReleaseSwallowsError(p) ==
  /\ pc[p] = "release"
  /\ Issue(p, "release")
  /\ pc' = [pc EXCEPT ![p] = "done"]
  /\ result' = [result EXCEPT ![p] = [kind |-> "admin", admin |-> createdAdmin[p]]]
  /\ UNCHANGED << dbVars, now, validatedData, invitationCode, passwordHash,
                  createdAdmin, codeLocked, txError, rollbackError, apiVars >>

\* client.release() placed at the end of the try block instead of in finally.
ReleaseOnSuccessOnly(p) ==
  /\ pc[p] = "release"
  /\ IF Thrown(p) # NoResult
       THEN /\ Throw(p, Thrown(p))
            /\ UNCHANGED client
       ELSE /\ Issue(p, "release")
            /\ pc' = [pc EXCEPT ![p] = "done"]
            /\ result' = [result EXCEPT ![p] =
                 [kind |-> "admin", admin |-> Returning(createdAdmin[p])]]
  /\ UNCHANGED << dbVars, now, validatedData, invitationCode, passwordHash,
                  createdAdmin, codeLocked, txError, rollbackError, apiVars >>

\* finally: client.release(); then createdAdmin is returned, or the catch
\* block's error is thrown, through onboardAdmin to the caller.
Release(p) ==
  /\ pc[p] = "release"
  /\ Issue(p, "release")
  /\ IF Thrown(p) # NoResult
       THEN Throw(p, Thrown(p))
       ELSE /\ pc' = [pc EXCEPT ![p] = "done"]
            /\ result' = [result EXCEPT ![p] =
                 [kind |-> "admin", admin |-> Returning(createdAdmin[p])]]
  /\ UNCHANGED << dbVars, now, validatedData, invitationCode, passwordHash,
                  createdAdmin, codeLocked, txError, rollbackError, apiVars >>

(***************************************************************************)
(* Faults of the storage layer and of bcrypt.  A statement can be rejected *)
(* by the driver for reasons outside the request (the connection dropped,  *)
(* the server shut down, a lock timeout); the request then takes the       *)
(* catch path of the code.  When the connection itself is gone the         *)
(* server aborts the open transaction, and the ROLLBACK sent by the catch  *)
(* block is rejected too.                                                  *)
(***************************************************************************)
\* The driver's error for a lost connection (SQLSTATE 08006).
PgConnectionError == [kind |-> "pg", code |-> "08006"]

\* bcrypt.hash rejects: hashPassword's catch block.
HashFault(p) ==
  /\ pc[p] = "hashPassword"
  /\ Throw(p, createServerError("INTERNAL_ERROR"))
  /\ UNCHANGED << dbVars, now, validatedData, invitationCode, passwordHash,
                  txVars, apiVars >>

\* pool.connect() rejects: the call is made before the try block, so its
\* error leaves createAdminWithTransaction as it is and no connection is held.
ConnectFault(p) ==
  /\ pc[p] = "connect"
  /\ Throw(p, PgConnectionError)
  /\ UNCHANGED << dbVars, now, validatedData, invitationCode, passwordHash,
                  txVars, apiVars >>

\* The statement the request is about to send, by its position.
Statement(position) ==
  CASE position = "begin" -> "BEGIN"
    [] position = "insert" -> "INSERT"
    [] position = "update" -> "UPDATE"
    [] position = "commit" -> "COMMIT"

\* BEGIN, the INSERT, the UPDATE or COMMIT is rejected: control passes to the
\* catch block with nothing of the statement applied.
StatementFault(p) ==
  /\ pc[p] \in {"begin", "insert", "update", "commit"}
  /\ Issue(p, Statement(pc[p]))
  /\ txError' = [txError EXCEPT ![p] = PgConnectionError]
  /\ pc' = [pc EXCEPT ![p] = "rollback"]
  /\ UNCHANGED << dbVars, now, validatedData, invitationCode, passwordHash,
                  createdAdmin, codeLocked, rollbackError, apiVars, result >>

\* The catch block's ROLLBACK is rejected: its error is thrown out of the
\* catch block in place of TRANSACTION_FAILED.  The server has discarded the
\* staged writes with the connection.
RollbackFault(p) ==
  /\ pc[p] = "rollback"
  /\ createdAdmin' = [createdAdmin EXCEPT ![p] = NoAdmin]
  /\ codeLocked' = [codeLocked EXCEPT ![p] = NULL]
  /\ rollbackError' = [rollbackError EXCEPT ![p] = PgConnectionError]
  /\ Issue(p, "ROLLBACK")
  /\ pc' = [pc EXCEPT ![p] = "release"]
  /\ UNCHANGED << dbVars, now, validatedData, invitationCode, passwordHash,
                  txError, apiVars, result >>

\* An invitation code is removed out of band (codes are managed outside this
\* service); a row updated by an open transaction is locked against it.
DeleteInvitationCode ==
  /\ \E i \in DOMAIN InvitationCode :
       /\ \A q \in Procs : ~(InTx(q) /\ codeLocked[q] = i)
       /\ InvitationCode' = [j \in DOMAIN InvitationCode \ {i} |-> InvitationCode[j]]
  /\ UNCHANGED << Admin, nextAdminID, now, pc, validatedData, invitationCode,
                  passwordHash, txVars, apiVars, result >>

(***************************************************************************)
(* updateAdmin: the profile update, taken as one step (its SELECT, the     *)
(* password gate and its single UPDATE statement).                         *)
(***************************************************************************)
bcryptCompare(password, hash) == hash.digest = << hash.salt, Bytes72(password) >>

\* A fixed SET list that writes every column of the patch, supplied or not.
ApplyPatchEveryColumn(row, patch, newHash, t) ==
  [ row EXCEPT
      !.FullName = patch.fullName,
      !.Phone = patch.phone,
      !.PasswordHash = IF patch.password # Absent THEN newHash ELSE @,
      !.UpdatedAt = t ]

\* The SET list built from the patch: only truthy fields are written, and
\* "UpdatedAt" always.
ApplyPatch(row, patch, newHash, t) ==
  [ row EXCEPT
      !.FullName = IF patch.fullName # Absent THEN patch.fullName ELSE @,
      !.Phone = IF patch.phone # Absent THEN patch.phone ELSE @,
      !.PasswordHash = IF patch.password # Absent THEN newHash ELSE @,
      !.UpdatedAt = t ]

\* The RETURNING list of updateAdmin's UPDATE.
UpdateReturning(row) ==
  [ AdminID |-> row.AdminID, StudentID |-> row.StudentID, FullName |-> row.FullName,
    Email |-> row.Email, Phone |-> row.Phone, RoleID |-> row.RoleID,
    BranchID |-> row.BranchID, UpdatedAt |-> row.UpdatedAt ]

updateAdmin(id, patch, salt) ==
  LET found == { a \in Admin : a.AdminID = id } IN
  /\ found # {}
  /\ LET admin == CHOOSE a \in found : TRUE IN
       /\ patch.password # Absent => bcryptCompare(patch.oldPassword, admin.PasswordHash)
       /\ Admin' = (Admin \ {admin}) \cup
            {ApplyPatch(admin, patch, bcryptHash(patch.password, salt), now)}

UpdateAdmin ==
  /\ \E id \in AdminIDs, patch \in Patches, salt \in Salts : updateAdmin(id, patch, salt)
  /\ UNCHANGED << InvitationCode, nextAdminID, now, pc, validatedData, invitationCode,
                  passwordHash, txVars, apiVars, result >>

\* Time passes.
Tick ==
  /\ now < MaxNow
  /\ now' = now + 1
  /\ UNCHANGED << dbVars, pc, validatedData, invitationCode, passwordHash,
                  txVars, apiVars, result >>

\* One step of one onboarding request.
Onboarding ==
  \/ \E p \in Procs : ValidateInvitationCode(p)
  \/ \E p \in Procs : RoleMatch(p)
  \/ \E p \in Procs : CheckStudentID(p)
  \/ \E p \in Procs : CheckEmail(p)
  \/ \E p \in Procs : ValidateRole(p)
  \/ \E p \in Procs : ValidateBranch(p)
  \/ \E p \in Procs : HashPassword(p)
  \/ \E p \in Procs : Connect(p)
  \/ \E p \in Procs : Begin(p)
  \/ \E p \in Procs : InsertAdmin(p)
  \/ \E p \in Procs : UpdateCode(p)
  \/ \E p \in Procs : Commit(p)
  \/ \E p \in Procs : Rollback(p)
  \/ \E p \in Procs : Release(p)

(***************************************************************************)
(* Spec: two concurrent onboarding requests while time passes.             *)
(***************************************************************************)
Next ==
  \/ Onboarding
  \/ Tick

Spec == Init /\ [][Next]_vars

(***************************************************************************)
(* SpecLifecycle: two concurrent onboarding requests interleaved with      *)
(* profile updates of the admins they create.                              *)
(***************************************************************************)
NextLifecycle ==
  \/ Onboarding
  \/ UpdateAdmin

SpecLifecycle == Init /\ [][NextLifecycle]_vars

(***************************************************************************)
(* SpecValidate: validateInvitationCode against a code in any condition.   *)
(* INVITE01 starts active or not, used or not (then by an admin onboarded  *)
(* earlier), with no expiry or one before, at or after the current time.   *)
(***************************************************************************)
EarlierAdmin ==
  AdminRow(1, [ invitationCode |-> "INVITE01", studentID |-> "CS000",
                email |-> "z@x.org", roleID |-> 1, branchID |-> NoBranch,
                password |-> "Passw0rd@1", fullName |-> "John Doe",
                phone |-> "+911" ],
           bcryptHash("Passw0rd@1", "salt1"))

InitValidate ==
  /\ now \in 0 .. MaxNow
  /\ \E active \in BOOLEAN, used \in BOOLEAN, expires \in {NoTime} \cup (0 .. MaxNow + 1) :
       /\ InvitationCode =
            (1 :> CodeRow(1, "INVITE01", 1, active, used, expires,
                          IF used THEN 1 ELSE NULL)) @@
            (2 :> CodeRow(2, "INVITE02", 2, TRUE, FALSE, 0, NULL))
       /\ Admin = IF used THEN {EarlierAdmin} ELSE {}
       /\ nextAdminID = IF used THEN 2 ELSE 1
  /\ JWT_SECRET = "s3cret"
  /\ InitProcs

NextValidate == \E p \in Procs : ValidateInvitationCode(p)

SpecValidate == InitValidate /\ [][NextValidate]_vars

(***************************************************************************)
(* The service some time after start-up: onboardAdmin has returned         *)
(* EarlierAdmin, onboarded with INVITE01, to request r2; r1 has not        *)
(* arrived.                                                                *)
(***************************************************************************)
EarlierData ==
  [ invitationCode |-> "INVITE01", studentID |-> "CS000", email |-> "z@x.org",
    roleID |-> 1, branchID |-> NoBranch, password |-> "Passw0rd@1",
    fullName |-> "John Doe", phone |-> "+911" ]

EarlierState ==
  /\ Admin = {EarlierAdmin}
  /\ InvitationCode = [InitialCodes EXCEPT ![1] = MarkUsed(@, EarlierAdmin.AdminID)]
  /\ nextAdminID = 2
  /\ now = 0
  /\ pc = [p \in Procs |-> IF p = "r2" THEN "done" ELSE "idle"]
  /\ validatedData =
       [p \in Procs |-> IF p = "r2" THEN EarlierData ELSE CHOOSE c \in Candidates : TRUE]
  /\ invitationCode = [p \in Procs |-> IF p = "r2" THEN InitialCodes[1] ELSE NoRow]
  /\ passwordHash =
       [p \in Procs |-> IF p = "r2" THEN EarlierAdmin.PasswordHash ELSE NoHash]
  /\ createdAdmin = [p \in Procs |-> IF p = "r2" THEN EarlierAdmin ELSE NoAdmin]
  /\ codeLocked = [p \in Procs |-> IF p = "r2" THEN 1 ELSE NULL]
  /\ txError = [p \in Procs |-> NoResult]
  /\ rollbackError = [p \in Procs |-> NoResult]
  /\ client =
       [p \in Procs |->
          IF p = "r2"
            THEN << "connect", "BEGIN", "INSERT", "UPDATE", "COMMIT", "release" >>
            ELSE << >>]
  /\ result =
       [p \in Procs |->
          IF p = "r2" THEN [kind |-> "admin", admin |-> Returning(EarlierAdmin)]
          ELSE NoResult]
  /\ res = [p \in Procs |-> NoResult]

InitEarlier ==
  /\ JWT_SECRET = "s3cret"
  /\ EarlierState
  /\ call = NoCall

(***************************************************************************)
(* SpecFaults: an onboarding request, after an earlier one has completed,  *)
(* against a storage layer that can reject any statement, a bcrypt that    *)
(* can fail, and invitation codes that can be removed out of band.         *)
(***************************************************************************)
Faults ==
  \/ \E p \in Procs : HashFault(p)
  \/ \E p \in Procs : ConnectFault(p)
  \/ \E p \in Procs : StatementFault(p)
  \/ \E p \in Procs : RollbackFault(p)

NextFaults ==
  \/ Onboarding
  \/ Faults
  \/ DeleteInvitationCode

SpecFaults == InitEarlier /\ [][NextFaults]_vars

(***************************************************************************)
(* utils/jwt.js and controllers/adminController.js: the onboard endpoint.  *)
(***************************************************************************)
\* generateJWT: an INTERNAL_ERROR when JWT_SECRET is not configured,
\* otherwise the token signed with it.
generateJWT(adminData, secret) ==
  IF secret = "" THEN createServerError("INTERNAL_ERROR")
  ELSE [ kind |-> "jwt", secret |-> secret,
         issuer |-> "gfg-event-management", audience |-> "admin-api",
         adminID |-> adminData.AdminID, studentID |-> adminData.StudentID,
         email |-> adminData.Email, roleID |-> adminData.RoleID,
         fullName |-> adminData.FullName ]

\* onboardAdminHandler once `await onboardAdmin(...)` has settled: an error
\* goes to next(error); otherwise the token is generated and 201 is sent, or
\* generateJWT throws and its error goes to next(error).
onboardAdminHandler(p) ==
  /\ pc[p] \in {"done", "failed"}
  /\ res[p] = NoResult
  /\ res' = [res EXCEPT ![p] =
       IF pc[p] = "failed" THEN globalErrorHandler(result[p])
       ELSE LET jwtToken == generateJWT(result[p].admin, JWT_SECRET) IN
         IF jwtToken.kind = "error" THEN globalErrorHandler(jwtToken)
         ELSE [status |-> 201, admin |-> result[p].admin, token |-> jwtToken]]
  /\ UNCHANGED << dbVars, now, pc, validatedData, invitationCode, passwordHash,
                  txVars, result, JWT_SECRET, call >>

(***************************************************************************)
(* POST /admin/login: loginAdmin and loginAdminHandler.                    *)
(***************************************************************************)
LoginEmails == {"z@x.org", "a@x.org"}
LoginPasswords == {"Passw0rd@1", "N3wpass@2", Long73}

\* loginAdmin returning the row it found without comparing the password.
loginAdminSkipsCompare(admins, email, password) ==
  LET rows == { a \in admins : a.Email = email } IN
  IF rows = {}
    THEN WithMessage(createValidationError("INVALID_INPUT"), "Invalid email or password")
  ELSE [kind |-> "admin", admin |-> Returning(CHOOSE a \in rows : TRUE)]

\* loginAdmin reporting a wrong password with a message of its own.
loginAdminTellsWrongPassword(admins, email, password) ==
  LET rows == { a \in admins : a.Email = email } IN
  IF rows = {}
    THEN WithMessage(createValidationError("INVALID_INPUT"), "Invalid email or password")
  ELSE LET admin == CHOOSE a \in rows : TRUE IN
    IF ~bcryptCompare(password, admin.PasswordHash)
      THEN WithMessage(createValidationError("INVALID_INPUT"), "Incorrect password")
    ELSE [kind |-> "admin", admin |-> Returning(admin)]

\* loginAdmin: the row with that email, then bcrypt.compare against its hash;
\* the value is the admin without its hash, or the error thrown.
loginAdmin(admins, email, password) ==
  LET rows == { a \in admins : a.Email = email } IN
  IF rows = {}
    THEN WithMessage(createValidationError("INVALID_INPUT"), "Invalid email or password")
  ELSE LET admin == CHOOSE a \in rows : TRUE IN
    IF ~bcryptCompare(password, admin.PasswordHash)
      THEN WithMessage(createValidationError("INVALID_INPUT"), "Invalid email or password")
    ELSE [kind |-> "admin", admin |-> Returning(admin)]

\* loginAdminHandler for one request: the service result, then the token.
\* (Login and update requests are taken one at a time.)
loginAdminHandler ==
  /\ call.op = "put" => call.res # NoResult
  /\ \E email \in LoginEmails, password \in LoginPasswords :
       LET admin == loginAdmin(Admin, email, password)
           jwtToken == generateJWT(admin.admin, JWT_SECRET)
       IN call' =
            [ op |-> "login", email |-> email, password |-> password,
              result |-> admin,
              res |-> IF admin.kind = "error" THEN globalErrorHandler(admin)
                      ELSE IF jwtToken.kind = "error" THEN globalErrorHandler(jwtToken)
                      ELSE [status |-> 200, admin |-> admin.admin, token |-> jwtToken] ]
  /\ UNCHANGED << dbVars, now, pc, validatedData, invitationCode, passwordHash,
                  txVars, result, JWT_SECRET, res >>

(***************************************************************************)
(* PUT /admin/:adminId: sanitizeAdminInput, authenticateAdmin,             *)
(* authorizeUpdateAdmin, validateAdminUpdateInput, updateAdminHandler.     *)
(***************************************************************************)
\* A key the JSON body does not have, and a key whose value is null.
Undefined == "<undefined>"
Null == "<null>"

Fields == {"fullName", "phone", "password", "oldPassword", "extra"}

\* Request bodies: valid and invalid names and phones, a password that is
\* null, empty, weak or valid, and a key the endpoint does not know.
Bodies ==
  [ fullName : {Undefined, "Jane Roe", "J"},
    phone : {Undefined, "+922", "123"},
    password : {Undefined, Null, "", "weak", "N3wpass@2", Long72},
    oldPassword : {Undefined, "", "Passw0rd@1", "N3wpass@2"},
    extra : {Undefined, "x"} ]

\* Object.keys(req.body)
Keys(body) == { f \in Fields : body[f] # Undefined }

\* x !== undefined && x !== null
Present(x) == x # Undefined /\ x # Null
\* JavaScript truthiness of a string, null or undefined.
Truthy(x) == x # Undefined /\ x # Null /\ x # ""

sanitizeAdminInput(body) ==
  IF Keys(body) = {}
    THEN WithMessage(createValidationError("MISSING_FIELD"), "Request body cannot be empty")
    ELSE NoResult

\* utils/validators.js: each returns the value or throws.
validateFullName(fullName) ==
  IF fullName \in {"Jane Roe", "John Doe"} THEN NoResult
  ELSE createValidationError("INVALID_INPUT")

validatePhone(phone) ==
  IF phone \in {"+922", "+911"} THEN NoResult
  ELSE createValidationError("INVALID_PHONE")

validatePassword(password) ==
  IF password \in {"Passw0rd@1", "N3wpass@2", Long72, Long73} THEN NoResult
  ELSE createValidationError("INVALID_PASSWORD")

\* req.validated as updateAdmin reads it: a field not set reads as Absent.
Validated(body) ==
  [ kind |-> "validated",
    patch |->
      [ fullName |-> IF Present(body.fullName) THEN body.fullName ELSE Absent,
        phone |-> IF Present(body.phone) THEN body.phone ELSE Absent,
        password |-> IF Present(body.password) THEN body.password ELSE Absent,
        oldPassword |-> IF Present(body.password) THEN body.oldPassword ELSE Absent ] ]

\* validateAdminUpdateInput accepting a new password without the old one.
validateAdminUpdateInputNoOldPassword(body) ==
  IF Present(body.fullName) /\ validateFullName(body.fullName) # NoResult
    THEN validateFullName(body.fullName)
  ELSE IF Present(body.phone) /\ validatePhone(body.phone) # NoResult
    THEN validatePhone(body.phone)
  ELSE IF Present(body.password) /\ validatePassword(body.password) # NoResult
    THEN validatePassword(body.password)
  ELSE IF ~Present(body.fullName) /\ ~Present(body.phone) /\ ~Present(body.password)
    THEN WithMessage(createValidationError("INVALID_INPUT"),
                     "At least one field (fullName, phone, or password) must be provided")
  ELSE Validated(body)

\* validateAdminUpdateInput: the error passed to next(), or req.validated.
validateAdminUpdateInput(body) ==
  IF Present(body.fullName) /\ validateFullName(body.fullName) # NoResult
    THEN validateFullName(body.fullName)
  ELSE IF Present(body.phone) /\ validatePhone(body.phone) # NoResult
    THEN validatePhone(body.phone)
  ELSE IF Present(body.password) /\ ~Truthy(body.oldPassword)
    THEN WithMessage(createValidationError("MISSING_FIELD"),
                     "Old password is required to set new password")
  ELSE IF Present(body.password) /\ validatePassword(body.password) # NoResult
    THEN validatePassword(body.password)
  ELSE IF ~Present(body.fullName) /\ ~Present(body.phone) /\ ~Present(body.password)
    THEN WithMessage(createValidationError("INVALID_INPUT"),
                     "At least one field (fullName, phone, or password) must be provided")
  ELSE Validated(body)

\* The Authorization header: none, a string that is no valid token, or a
\* token issued to an admin.
NoToken == [kind |-> "none"]
BadToken == [kind |-> "bad"]
Tokens(admins, secret) ==
  {NoToken, BadToken} \cup { generateJWT(Returning(a), secret) : a \in admins }

\* middleware/authMiddleware.js
authenticateAdmin(token) ==
  IF token.kind # "jwt" THEN createUnauthorizedError("UNAUTHORIZED") ELSE NoResult

\* parseInt(adminId, 10); NaN for a string with no leading digits.
NaN == -2
parseInt(adminId) ==
  CASE adminId = "1" -> 1
    [] adminId = "2" -> 2
    [] adminId = "9" -> 9
    [] OTHER -> NaN

\* The role that may update any admin's profile.
SuperAdminRole == 1

authorizeUpdateAdmin(token, adminId) ==
  IF token.adminID = parseInt(adminId) \/ token.roleID = SuperAdminRole
    THEN NoResult
    ELSE createForbiddenError("FORBIDDEN")

AdminIdParams == {"1", "2", "9", "abc"}

PutRequests ==
  [ adminId : AdminIdParams, token : Tokens(Admin, JWT_SECRET), body : Bodies ]

\* Requests of admins changing their own name or password.
SelfRequests ==
  { [ adminId |-> CHOOSE adminId \in AdminIdParams : parseInt(adminId) = a.AdminID,
      token |-> generateJWT(Returning(a), JWT_SECRET),
      body |-> [ fullName |-> fullName, phone |-> Undefined, password |-> password,
                 oldPassword |-> oldPassword, extra |-> Undefined ] ] :
      a \in Admin,
      fullName \in {Undefined, "Jane Roe"},
      password \in {Undefined, "N3wpass@2", Long72},
      oldPassword \in {Undefined, "Passw0rd@1"} }

\* updateAdmin without its existence check: the UPDATE matches no row and
\* 'Failed to update admin' is thrown.
updateAdminErrorNoExistenceCheck(admins, id, patch) ==
  LET found == { a \in admins : a.AdminID = id } IN
  IF found = {} THEN WithMessage(createServerError("DATABASE_ERROR"), "Failed to update admin")
  ELSE IF patch.password # Absent
          /\ ~bcryptCompare(patch.oldPassword, (CHOOSE a \in found : TRUE).PasswordHash)
    THEN WithMessage(createValidationError("INVALID_INPUT"), "Current password is incorrect")
  ELSE NoResult

\* updateAdmin's failures: the admin is not found, or the old password does
\* not verify.
updateAdminError(admins, id, patch) ==
  LET found == { a \in admins : a.AdminID = id } IN
  IF found = {} THEN WithMessage(createNotFoundError("INVALID_INPUT"), "Admin not found")
  ELSE IF patch.password # Absent
          /\ ~bcryptCompare(patch.oldPassword, (CHOOSE a \in found : TRUE).PasswordHash)
    THEN WithMessage(createValidationError("INVALID_INPUT"), "Current password is incorrect")
  ELSE NoResult

\* What updateAdmin does on its way: its statements and its bcrypt calls.
updateAdminOps(admins, id, patch) ==
  LET error == updateAdminError(admins, id, patch)
      found == { a \in admins : a.AdminID = id }
  IN << "SELECT" >>
     \o (IF found # {} /\ patch.password # Absent THEN << "bcrypt.compare" >> ELSE << >>)
     \o (IF error = NoResult /\ patch.password # Absent THEN << "bcrypt.hash" >> ELSE << >>)
     \o (IF error = NoResult THEN << "UPDATE" >> ELSE << >>)

Chain ==
  << "sanitizeAdminInput", "authenticateAdmin", "authorizeUpdateAdmin",
     "validateAdminUpdateInput", "updateAdminHandler", "updateAdmin" >>

\* The error each member of the chain raises for the request, if any.
ChainError(k, req) ==
  CASE k = 1 -> sanitizeAdminInput(req.body)
    [] k = 2 -> authenticateAdmin(req.token)
    [] k = 3 -> authorizeUpdateAdmin(req.token, req.adminId)
    [] k = 4 -> IF validateAdminUpdateInput(req.body).kind = "error"
                  THEN validateAdminUpdateInput(req.body) ELSE NoResult
    [] k = 5 -> IF parseInt(req.adminId) = NaN \/ parseInt(req.adminId) <= 0
                  THEN WithMessage(createValidationError("INVALID_INPUT"), "Invalid admin ID")
                  ELSE NoResult
    [] k = 6 -> updateAdminError(Admin, parseInt(req.adminId),
                                 validateAdminUpdateInput(req.body).patch)

\* The member of the chain the request gets to: the first that raises an
\* error, or updateAdmin.
Reached(req) ==
  IF \E k \in 1 .. 6 : ChainError(k, req) # NoResult
    THEN CHOOSE k \in 1 .. 6 :
           /\ ChainError(k, req) # NoResult
           /\ \A j \in 1 .. k - 1 : ChainError(j, req) = NoResult
    ELSE 6

\* A PUT request the router has received and not yet answered.
Pending(req) == [op |-> "put", req |-> req, ran |-> << >>, res |-> NoResult]

\* A PUT request drawn from `requests` arrives (requests are taken one at a
\* time).
ReceivePut(requests) ==
  /\ call.op = "put" => call.res # NoResult
  /\ \E req \in requests : call' = Pending(req)
  /\ UNCHANGED << dbVars, now, pc, validatedData, invitationCode, passwordHash,
                  txVars, result, JWT_SECRET, res >>

\* The received request goes through the chain to its response.  `ran`
\* lists the members of the chain that ran and, when updateAdmin did, its
\* statements and bcrypt calls.
PutAdmin ==
  /\ call.op = "put" /\ call.res = NoResult
  /\ \E salt \in Salts :
       LET req == call.req
           k == Reached(req)
           error == ChainError(k, req)
           id == parseInt(req.adminId)
           patch == validateAdminUpdateInput(req.body).patch
       IN /\ IF error = NoResult
               THEN updateAdmin(id, patch, salt)
               ELSE UNCHANGED Admin
          /\ call' =
               [ call EXCEPT
                   !.ran = SubSeq(Chain, 1, k)
                           \o (IF k = 6 THEN updateAdminOps(Admin, id, patch) ELSE << >>),
                   !.res = IF error # NoResult THEN globalErrorHandler(error)
                           ELSE [ status |-> 200,
                                  admin |-> UpdateReturning(CHOOSE a \in Admin' : a.AdminID = id) ] ]
  /\ UNCHANGED << InvitationCode, nextAdminID, now, pc, validatedData, invitationCode,
                  passwordHash, txVars, result, JWT_SECRET, res >>

(***************************************************************************)
(* updateAdmin called by its controller: one call, from its arguments to   *)
(* what it returns or throws.                                              *)
(***************************************************************************)
\* req.validated as validateAdminUpdateInput leaves it: a password comes
\* with an oldPassword, right or wrong, and oldPassword never comes alone.
UpdateData ==
  { [ fullName |-> fullName, phone |-> phone,
      password |-> pw[1], oldPassword |-> pw[2] ] :
      fullName \in {Absent, "Jane Roe"},
      phone \in {Absent, "+922"},
      pw \in { << Absent, Absent >>, << "N3wpass@2", "Passw0rd@1" >>,
               << "N3wpass@2", "N3wpass@2" >> } }

\* A call of updateAdmin that has not returned.
PendingUpdate(AdminID, updateData) ==
  [ op |-> "updateAdmin", AdminID |-> AdminID, updateData |-> updateData,
    ran |-> << >>, result |-> NoResult ]

\* updateAdmin writing the name and the phone of the patch before it looks
\* at the old password.
CallUpdateAdminWritesFirst ==
  /\ call.op = "updateAdmin" /\ call.result = NoResult
  /\ \E salt \in Salts :
       LET error == updateAdminError(Admin, call.AdminID, call.updateData)
           found == { a \in Admin : a.AdminID = call.AdminID }
       IN
         /\ IF error = NoResult
              THEN updateAdmin(call.AdminID, call.updateData, salt)
              ELSE IF found # {}
                THEN Admin' = { IF a \in found
                                  THEN ApplyPatch(a, [call.updateData EXCEPT !.password = Absent],
                                                  a.PasswordHash, now)
                                  ELSE a : a \in Admin }
                ELSE UNCHANGED Admin
         /\ call' =
              [ call EXCEPT
                  !.ran = updateAdminOps(Admin, call.AdminID, call.updateData),
                  !.result =
                    IF error # NoResult THEN error
                    ELSE [ kind |-> "admin",
                           admin |-> UpdateReturning(
                             CHOOSE a \in Admin' : a.AdminID = call.AdminID) ] ]
  /\ UNCHANGED << InvitationCode, nextAdminID, now, pc, validatedData, invitationCode,
                  passwordHash, txVars, result, JWT_SECRET, res >>

\* updateAdmin(AdminID, updateData) runs to its end: the row is written and
\* returned, or the error is thrown and nothing is written.
CallUpdateAdmin ==
  /\ call.op = "updateAdmin" /\ call.result = NoResult
  /\ \E salt \in Salts :
       LET error == updateAdminError(Admin, call.AdminID, call.updateData) IN
         /\ IF error = NoResult
              THEN updateAdmin(call.AdminID, call.updateData, salt)
              ELSE UNCHANGED Admin
         /\ call' =
              [ call EXCEPT
                  !.ran = updateAdminOps(Admin, call.AdminID, call.updateData),
                  !.result =
                    IF error # NoResult THEN error
                    ELSE [ kind |-> "admin",
                           admin |-> UpdateReturning(
                             CHOOSE a \in Admin' : a.AdminID = call.AdminID) ] ]
  /\ UNCHANGED << InvitationCode, nextAdminID, now, pc, validatedData, invitationCode,
                  passwordHash, txVars, result, JWT_SECRET, res >>

(***************************************************************************)
(* updateAdmin statement by statement, for calls that run at the same      *)
(* time.  Each call holds what it has read in its own locals; the SELECT   *)
(* and the UPDATE are separate autocommit statements on the pool, and the  *)
(* other call's statements can fall between them.                          *)
(***************************************************************************)
Updaters == {"u1", "u2"}

\* req.validated of the concurrent calls: as UpdateData, with a second new
\* password.
ConcurrentData ==
  { [ fullName |-> fullName, phone |-> phone,
      password |-> pw[1], oldPassword |-> pw[2] ] :
      fullName \in {Absent, "Jane Roe"},
      phone \in {Absent, "+922"},
      pw \in { << Absent, Absent >>, << "N3wpass@2", "Passw0rd@1" >>,
               << "Th1rdpass#3", "Passw0rd@1" >>, << "N3wpass@2", "N3wpass@2" >> } }

\* A call of updateAdmin about to send its SELECT.
StartUpdate(AdminID, updateData) ==
  [ AdminID |-> AdminID, updateData |-> updateData, at |-> "SELECT",
    admin |-> NoRow, result |-> NoResult ]

\* No login request is in flight.
NoLogin == [ at |-> "none" ]

\* What a handler does to answer its request: it sends the response, or it
\* passes an error to next.
Json(status) == [ answer |-> "res.json", status |-> status ]
NextError(error) == [ answer |-> "next", error |-> error ]

\* The calls in flight: calls of updateAdmin, by caller, and no login;
\* `answers` lists, for each request, what its handler has done to answer it.
ConcurrentUpdates(calls) ==
  [ op |-> "concurrent", calls |-> calls, login |-> NoLogin,
    answers |-> [ r \in Procs \cup {"login"} \cup DOMAIN calls |-> << >> ] ]

\* The call moves on, or ends with what it returns or throws.
Step(u, at, admin, outcome) ==
  call' = [ call EXCEPT !.calls[u].at = at, !.calls[u].admin = admin,
                        !.calls[u].result = outcome ]

\* const adminResult = await pool.query(getAdminQuery, [AdminID]), and the
\* existence check on its rows.
SelectAdmin(u) ==
  /\ call.op = "concurrent"
  /\ u \in DOMAIN call.calls
  /\ call.calls[u].at = "SELECT"
  /\ LET c == call.calls[u]
         rows == { a \in Admin : a.AdminID = c.AdminID }
     IN IF rows = {}
          THEN Step(u, "thrown", NoRow,
                    WithMessage(createNotFoundError("INVALID_INPUT"), "Admin not found"))
          ELSE LET row == CHOOSE a \in rows : TRUE IN
               Step(u, IF c.updateData.password # Absent THEN "bcrypt.compare" ELSE "UPDATE",
                    [ AdminID |-> row.AdminID, PasswordHash |-> row.PasswordHash ],
                    NoResult)
  /\ UNCHANGED << dbVars, now, pc, validatedData, invitationCode, passwordHash,
                  txVars, result, JWT_SECRET, res >>

\* await bcrypt.compare(oldPassword, admin.PasswordHash), against the hash
\* the SELECT returned.
CompareOldPassword(u) ==
  /\ call.op = "concurrent"
  /\ u \in DOMAIN call.calls
  /\ call.calls[u].at = "bcrypt.compare"
  /\ LET c == call.calls[u] IN
       IF bcryptCompare(c.updateData.oldPassword, c.admin.PasswordHash)
         THEN Step(u, "UPDATE", c.admin, NoResult)
         ELSE Step(u, "thrown", c.admin,
                   WithMessage(createValidationError("INVALID_INPUT"),
                               "Current password is incorrect"))
  /\ UNCHANGED << dbVars, now, pc, validatedData, invitationCode, passwordHash,
                  txVars, result, JWT_SECRET, res >>

\* The new hash is computed and the UPDATE statement runs on the row as it
\* is stored now; its RETURNING row is the call's result.
UpdateRow(u) ==
  /\ call.op = "concurrent"
  /\ u \in DOMAIN call.calls
  /\ call.calls[u].at = "UPDATE"
  /\ \E salt \in Salts :
       LET c == call.calls[u]
           rows == { a \in Admin : a.AdminID = c.AdminID }
       IN IF rows = {}
            THEN /\ Step(u, "thrown", c.admin,
                         WithMessage(createServerError("DATABASE_ERROR"),
                                     "Failed to update admin"))
                 /\ UNCHANGED Admin
            ELSE LET row == CHOOSE a \in rows : TRUE
                     updated == ApplyPatch(row, c.updateData,
                                           bcryptHash(c.updateData.password, salt), now)
                 IN /\ Admin' = (Admin \ {row}) \cup {updated}
                    /\ Step(u, "returned", c.admin,
                            [ kind |-> "admin", admin |-> UpdateReturning(updated) ])
  /\ UNCHANGED << InvitationCode, nextAdminID, now, pc, validatedData, invitationCode,
                  passwordHash, txVars, result, JWT_SECRET, res >>

\* pool.query or bcrypt rejects: the catch block wraps what has no
\* statusCode.
UpdateFault(u) ==
  /\ call.op = "concurrent"
  /\ u \in DOMAIN call.calls
  /\ call.calls[u].at \in {"SELECT", "bcrypt.compare", "UPDATE"}
  /\ Step(u, "thrown", call.calls[u].admin,
          WithMessage(createServerError("DATABASE_ERROR"), "Error updating admin details"))
  /\ UNCHANGED << dbVars, now, pc, validatedData, invitationCode, passwordHash,
                  txVars, result, JWT_SECRET, res >>

(***************************************************************************)
(* loginAdminHandler await by await, for a login that runs while other     *)
(* requests do: loginAdmin's SELECT, then bcrypt.compare on the row it     *)
(* read, the token and the response.                                       *)
(***************************************************************************)
\* loginAdminHandler once `await loginAdmin(...)` has settled: the error goes
\* to next(error) from the catch block; otherwise the token is signed and
\* 200 is sent, or generateJWT throws and its error goes to next(error).
loginAdminHandlerAnswers(outcome, secret) ==
  IF outcome.kind # "admin" THEN << NextError(outcome) >>
  ELSE IF generateJWT(outcome.admin, secret).kind = "error"
    THEN << NextError(generateJWT(outcome.admin, secret)) >>
  ELSE << Json(200) >>

\* A login request about to send its SELECT.
StartLogin(email, password) ==
  [ at |-> "SELECT", email |-> email, password |-> password,
    admin |-> NoRow, result |-> NoResult, res |-> NoResult ]

\* const result = await pool.query(query, [email]): no row ends the login
\* with the error passed to next(error), a row is kept for the comparison.
LoginSelect ==
  /\ call.op = "concurrent"
  /\ call.login.at = "SELECT"
  /\ LET login == call.login
         rows == { a \in Admin : a.Email = login.email }
     IN IF rows = {}
          THEN LET thrown == loginAdmin(Admin, login.email, login.password) IN
               call' = [ call EXCEPT !.login.at = "answered",
                                     !.login.result = thrown,
                                     !.login.res = globalErrorHandler(thrown),
                                     !.answers["login"] =
                                        @ \o loginAdminHandlerAnswers(thrown, JWT_SECRET) ]
          ELSE call' = [ call EXCEPT !.login.at = "bcrypt.compare",
                                     !.login.admin = CHOOSE a \in rows : TRUE ]
  /\ UNCHANGED << dbVars, now, pc, validatedData, invitationCode, passwordHash,
                  txVars, result, JWT_SECRET, res >>

\* await bcrypt.compare(password, admin.PasswordHash) on the row as read,
\* then loginAdmin returns or throws and the handler signs the token and
\* answers.
LoginAnswer ==
  /\ call.op = "concurrent"
  /\ call.login.at = "bcrypt.compare"
  /\ LET login == call.login
         admin == loginAdmin({login.admin}, login.email, login.password)
         jwtToken == generateJWT(admin.admin, JWT_SECRET)
     IN call' =
          [ call EXCEPT
              !.login.at = "answered",
              !.login.result = admin,
              !.login.res =
                IF admin.kind = "error" THEN globalErrorHandler(admin)
                ELSE IF jwtToken.kind = "error" THEN globalErrorHandler(jwtToken)
                ELSE [status |-> 200, admin |-> admin.admin, token |-> jwtToken],
              !.answers["login"] = @ \o loginAdminHandlerAnswers(admin, JWT_SECRET) ]
  /\ UNCHANGED << dbVars, now, pc, validatedData, invitationCode, passwordHash,
                  txVars, result, JWT_SECRET, res >>

\* pool.query or bcrypt.compare rejects during the login: loginAdmin's catch
\* block wraps what has no statusCode, and the handler passes it on.
LoginFault ==
  /\ call.op = "concurrent"
  /\ call.login.at \in {"SELECT", "bcrypt.compare"}
  /\ LET thrown == WithMessage(createServerError("DATABASE_ERROR"), "Error during login") IN
       call' = [ call EXCEPT !.login.at = "answered",
                             !.login.result = thrown,
                             !.login.res = globalErrorHandler(thrown),
                             !.answers["login"] =
                                @ \o loginAdminHandlerAnswers(thrown, JWT_SECRET) ]
  /\ UNCHANGED << dbVars, now, pc, validatedData, invitationCode, passwordHash,
                  txVars, result, JWT_SECRET, res >>

(***************************************************************************)
(* The onboard and update handlers as what they do to answer: each is one  *)
(* try block around one awaited service call, with next(error) in its      *)
(* catch block.                                                            *)
(***************************************************************************)
\* onboardAdminHandler once `await onboardAdmin(...)` has settled.
onboardAdminHandlerAnswers(outcome, secret) ==
  IF outcome.kind # "admin" THEN << NextError(outcome) >>
  ELSE IF generateJWT(outcome.admin, secret).kind = "error"
    THEN << NextError(generateJWT(outcome.admin, secret)) >>
  ELSE << Json(201) >>

OnboardHandlerAnswers(p) ==
  /\ call.op = "concurrent"
  /\ pc[p] \in {"done", "failed"}
  /\ call.answers[p] = << >>
  /\ call' = [ call EXCEPT !.answers[p] = @ \o onboardAdminHandlerAnswers(result[p], JWT_SECRET) ]
  /\ UNCHANGED << dbVars, now, pc, validatedData, invitationCode, passwordHash,
                  txVars, result, JWT_SECRET, res >>

\* updateAdminHandler checking the parsed adminId with the `return` before
\* next(...) left out: the handler goes on to call the service.
updateAdminHandlerEntryNoReturn(id) ==
  IF id = NaN \/ id <= 0
    THEN [ answers |-> << NextError(WithMessage(createValidationError("INVALID_INPUT"),
                                                "Invalid admin ID")) >>,
           calls |-> TRUE ]
    ELSE [ answers |-> << >>, calls |-> TRUE ]

\* updateAdminHandler up to its await: an adminId that does not parse to a
\* positive number is answered with next(...) and the handler returns;
\* otherwise updateAdmin is called.
updateAdminHandlerEntry(id) ==
  IF id = NaN \/ id <= 0
    THEN [ answers |-> << NextError(WithMessage(createValidationError("INVALID_INPUT"),
                                                "Invalid admin ID")) >>,
           calls |-> FALSE ]
    ELSE [ answers |-> << >>, calls |-> TRUE ]

\* updateAdminHandler once `await updateAdmin(...)` has settled.
updateAdminHandlerAnswers(outcome) ==
  IF outcome.kind # "admin" THEN << NextError(outcome) >> ELSE << Json(200) >>

\* A PUT request that has passed the middleware and is about to enter
\* updateAdminHandler.
ReceivedUpdate(adminId, updateData) ==
  [ StartUpdate(parseInt(adminId), updateData) EXCEPT !.at = "updateAdminHandler" ]

UpdateHandlerEnters(u) ==
  /\ call.op = "concurrent"
  /\ u \in DOMAIN call.calls
  /\ call.calls[u].at = "updateAdminHandler"
  /\ LET entry == updateAdminHandlerEntry(call.calls[u].AdminID) IN
       call' = [ call EXCEPT !.answers[u] = @ \o entry.answers,
                             !.calls[u].at = IF entry.calls THEN "SELECT" ELSE "answered" ]
  /\ UNCHANGED << dbVars, now, pc, validatedData, invitationCode, passwordHash,
                  txVars, result, JWT_SECRET, res >>

UpdateHandlerAnswers(u) ==
  /\ call.op = "concurrent"
  /\ u \in DOMAIN call.calls
  /\ call.calls[u].at \in {"returned", "thrown"}
  /\ call' = [ call EXCEPT !.answers[u] = @ \o updateAdminHandlerAnswers(call.calls[u].result),
                           !.calls[u].at = "answered" ]
  /\ UNCHANGED << dbVars, now, pc, validatedData, invitationCode, passwordHash,
                  txVars, result, JWT_SECRET, res >>

(***************************************************************************)
(* utils/jwt.js verifyJWT.                                                 *)
(***************************************************************************)
\* Tokens handed to verifyJWT: a string that is no token, and tokens for
\* EarlierAdmin signed with the service's secret or another, with the
\* service's issuer and audience or others, expiring at some time.
VerifyTokens ==
  {BadToken} \cup
  { [ generateJWT(Returning(EarlierAdmin), secret) EXCEPT
        !.issuer = issuer, !.audience = audience ] @@ [exp |-> exp] :
      secret \in {"s3cret", "forged"},
      issuer \in {"gfg-event-management", "other-issuer"},
      audience \in {"admin-api", "other-api"},
      exp \in 0 .. MaxNow + 1 }

\* jwt.verify(token, secret, {issuer, audience}) accepts the token at time t.
jwtVerifies(token, secret, t) ==
  /\ token.kind = "jwt"
  /\ token.secret = secret
  /\ t < token.exp
  /\ token.issuer = "gfg-event-management"
  /\ token.audience = "admin-api"

\* verifyJWT: the decoded payload, or the error thrown.
verifyJWT(token, secret, t) ==
  IF secret = "" THEN WithMessage(createServerError("INTERNAL_ERROR"), "JWT_SECRET not configured")
  ELSE IF ~jwtVerifies(token, secret, t)
    THEN WithMessage(createServerError("INTERNAL_ERROR"), "JWT verification failed")
  ELSE [ kind |-> "claims", adminID |-> token.adminID, studentID |-> token.studentID,
         email |-> token.email, roleID |-> token.roleID, fullName |-> token.fullName,
         iss |-> token.issuer, aud |-> token.audience, exp |-> token.exp ]

\* A call of verifyJWT that has not returned.
PendingVerify(token) == [op |-> "verifyJWT", token |-> token, at |-> NoTime, result |-> NoResult]

\* verifyJWT(token) is called at the current time.
VerifyJWT ==
  /\ call.op = "verifyJWT" /\ call.result = NoResult
  /\ call' = [call EXCEPT !.at = now, !.result = verifyJWT(call.token, JWT_SECRET, now)]
  /\ UNCHANGED << dbVars, now, pc, validatedData, invitationCode, passwordHash,
                  txVars, result, JWT_SECRET, res >>

(***************************************************************************)
(* middleware/validateAdmin.js: validateAdminOnboardingInput and           *)
(* validateAdminLoginInput in front of their handlers.                     *)
(***************************************************************************)
\* The fields validateAdminOnboardingInput validates, in its order.
OnboardingFields ==
  << "studentID", "fullName", "email", "password", "phone", "roleID",
     "graduationYear", "invitationCode", "branchID" >>

\* What a validator of utils/validators.js does with the value it is given:
\* it returns it, throws an APIError, or throws a plain Error.
ValidatorOutcomes == {"ok", "invalid", "error"}

\* The error a validator throws.
ValidatorThrows(outcome) ==
  CASE outcome = "invalid" -> createValidationError("INVALID_INPUT")
    [] outcome = "error" -> JsError
    [] OTHER -> NoResult

\* Onboarding bodies by what each validator makes of its field; branchID
\* can also be absent, and then is not validated.
OnboardingBodies ==
  [ kind : {"onboard"},
    fields : [ 1 .. 8 -> ValidatorOutcomes ],
    branchID : ValidatorOutcomes \cup {"absent"} ]

\* A password that is not a string.
NotAString == "<number>"

LoginBodies ==
  [ kind : {"login"},
    email : ValidatorOutcomes,
    password : {Undefined, "", NotAString, "Passw0rd@1"} ]

\* The catch block without its `return`: next is called a second time.
CatchNextTwice(error) ==
  IF error.kind = "error" THEN << error, createValidationError("INVALID_INPUT") >>
  ELSE << createValidationError("INVALID_INPUT") >>

\* The catch block of both middlewares: an APIError goes to next as it is,
\* any other error wrapped as INVALID_INPUT.  The value is the sequence of
\* arguments next was called with.
CatchNext(error) ==
  IF error.kind = "error" THEN << error >>
  ELSE << createValidationError("INVALID_INPUT") >>

\* The first error thrown in the try block of validateAdminOnboardingInput.
OnboardingInputError(body) ==
  LET outcome(i) == IF i = 9 THEN (IF body.branchID = "absent" THEN "ok" ELSE body.branchID)
                    ELSE body.fields[i]
      thrown == { i \in 1 .. 9 : ValidatorThrows(outcome(i)) # NoResult }
  IN IF thrown = {} THEN NoResult
     ELSE ValidatorThrows(outcome(CHOOSE i \in thrown : \A j \in thrown : i <= j))

\* The first error thrown in the try block of validateAdminLoginInput.
LoginInputError(body) ==
  IF ValidatorThrows(body.email) # NoResult THEN ValidatorThrows(body.email)
  ELSE IF ~Truthy(body.password) \/ body.password = NotAString
    THEN WithMessage(createValidationError("MISSING_FIELD"), "Password is required")
  ELSE NoResult

\* Either middleware: req.validated is set and next() called, or the catch
\* block calls next with the error.
validateAdminInput(body) ==
  LET error == IF body.kind = "onboard" THEN OnboardingInputError(body)
               ELSE LoginInputError(body)
  IN IF error = NoResult THEN [validated |-> TRUE, next |-> << NoResult >>]
     ELSE [validated |-> FALSE, next |-> CatchNext(error)]

\* Express after the middleware: next() passes the request on to the
\* handler, next(error) to the error handler.
Dispatch(next) ==
  { IF next[i] = NoResult THEN "handler" ELSE "globalErrorHandler" : i \in DOMAIN next }

\* A request that has arrived at the validation middleware.
PendingInput(body) ==
  [ op |-> "validate", body |-> body, validated |-> FALSE, next |-> << >>, reached |-> {} ]

\* The middleware runs and express passes the request on.
ValidateInput ==
  /\ call.op = "validate" /\ call.next = << >>
  /\ LET out == validateAdminInput(call.body) IN
       call' = [ call EXCEPT !.validated = out.validated, !.next = out.next,
                             !.reached = Dispatch(out.next) ]
  /\ UNCHANGED << dbVars, now, pc, validatedData, invitationCode, passwordHash,
                  txVars, result, JWT_SECRET, res >>

(***************************************************************************)
(* hashPassword and bcrypt.compare on their own.                           *)
(***************************************************************************)
\* Passwords that satisfy PASSWORD_RULES.
ValidPasswords == {"Passw0rd@1", "N3wpass@2", Long72, Long73}

\* Salts bcrypt.hash can draw.
HashSalts == {"salt1", "salt2", "salt3"}

\* The password q is about to be hashed and the password p verified against
\* the hash.
PendingHash(p, q) ==
  [op |-> "hashPassword", p |-> p, q |-> q, hash |-> NoHash, verified |-> "unknown"]

\* hashPassword(q)
HashCall ==
  /\ call.op = "hashPassword" /\ call.hash = NoHash
  /\ \E salt \in HashSalts : call' = [call EXCEPT !.hash = bcryptHash(call.q, salt)]
  /\ UNCHANGED << dbVars, now, pc, validatedData, invitationCode, passwordHash,
                  txVars, result, JWT_SECRET, res >>

\* bcrypt.compare(p, hash)
CompareCall ==
  /\ call.op = "hashPassword" /\ call.hash # NoHash /\ call.verified = "unknown"
  /\ call' = [call EXCEPT !.verified = IF bcryptCompare(call.p, call.hash) THEN "yes" ELSE "no"]
  /\ UNCHANGED << dbVars, now, pc, validatedData, invitationCode, passwordHash,
                  txVars, result, JWT_SECRET, res >>

(***************************************************************************)
(* SpecHandler: the onboard endpoint, request to response, with            *)
(* JWT_SECRET configured or not and a storage layer that can fail.         *)
(***************************************************************************)
InitHandler ==
  /\ JWT_SECRET \in {"", "s3cret"}
  /\ EarlierState
  /\ call = NoCall

NextHandler ==
  \/ Onboarding
  \/ Faults
  \/ \E p \in Procs : onboardAdminHandler(p)

SpecHandler == InitHandler /\ [][NextHandler]_vars

(***************************************************************************)
(* SpecLogin: logins and admins' updates of their own name and password,   *)
(* while a second admin is being onboarded over a storage layer that can   *)
(* fail.                                                                   *)
(***************************************************************************)
NextLogin ==
  \/ Onboarding
  \/ Faults
  \/ loginAdminHandler
  \/ ReceivePut(SelfRequests)
  \/ PutAdmin

SpecLogin == InitEarlier /\ [][NextLogin]_vars

(***************************************************************************)
(* SpecPut: one PUT /admin/:adminId request with any body, token and       *)
(* adminId, from its arrival to its response.                              *)
(***************************************************************************)
InitPut ==
  /\ JWT_SECRET = "s3cret"
  /\ EarlierState
  /\ call \in { Pending(req) : req \in PutRequests }

SpecPut == InitPut /\ [][PutAdmin]_vars

(***************************************************************************)
(* SpecUpdate: one call of updateAdmin, for any AdminID and patch, made at *)
(* any moment while a second admin is being onboarded.                     *)
(***************************************************************************)
InitUpdate ==
  /\ JWT_SECRET = "s3cret"
  /\ EarlierState
  /\ call \in { PendingUpdate(id, updateData) : id \in AdminIDs, updateData \in UpdateData }

NextUpdate ==
  \/ Onboarding
  \/ \E p \in Procs : StatementFault(p)
  \/ CallUpdateAdmin

SpecUpdate == InitUpdate /\ [][NextUpdate]_vars

(***************************************************************************)
(* SpecApi: the three endpoints together.  An onboarding request is        *)
(* answered by its handler while admins log in and update their own        *)
(* profiles.                                                               *)
(***************************************************************************)
NextApi ==
  \/ Onboarding
  \/ \E p \in Procs : StatementFault(p)
  \/ \E p \in Procs : onboardAdminHandler(p)
  \/ loginAdminHandler
  \/ ReceivePut(SelfRequests)
  \/ PutAdmin

SpecApi == InitEarlier /\ [][NextApi]_vars

(***************************************************************************)
(* SpecVerify: one call of verifyJWT, for any token, made at any time with *)
(* JWT_SECRET configured or not.                                           *)
(***************************************************************************)
InitVerify ==
  /\ JWT_SECRET \in {"", "s3cret"}
  /\ EarlierState
  /\ call \in { PendingVerify(token) : token \in VerifyTokens }

NextVerify ==
  \/ Tick
  \/ VerifyJWT

SpecVerify == InitVerify /\ [][NextVerify]_vars

(***************************************************************************)
(* SpecMiddleware: one request to POST /onboard or POST /login, from the   *)
(* validation middleware to the handler or the error handler.              *)
(***************************************************************************)
InitMiddleware ==
  /\ JWT_SECRET = "s3cret"
  /\ EarlierState
  /\ call \in { PendingInput(body) : body \in OnboardingBodies \cup LoginBodies }

SpecMiddleware == InitMiddleware /\ [][ValidateInput]_vars

(***************************************************************************)
(* SpecHash: a valid password is hashed and a valid password, the same or  *)
(* another, is verified against the hash.                                  *)
(***************************************************************************)
InitHash ==
  /\ JWT_SECRET = "s3cret"
  /\ EarlierState
  /\ call \in { PendingHash(p, q) : p \in ValidPasswords, q \in ValidPasswords }

NextHash ==
  \/ HashCall
  \/ CompareCall

SpecHash == InitHash /\ [][NextHash]_vars

(***************************************************************************)
(* SpecRetry: two onboarding requests one after the other.  The storage    *)
(* layer can reject a statement of the first request's transaction; the    *)
(* second request arrives when the first has been answered.                *)
(***************************************************************************)
\* The second request takes its steps once the first has finished.
InTurn == pc'["r2"] # pc["r2"] => pc["r1"] \in {"done", "failed"}

NextRetry ==
  /\ \/ Onboarding
     \/ StatementFault("r1")
  /\ InTurn

SpecRetry == Init /\ [][NextRetry]_vars

(***************************************************************************)
(* SpecConcurrent: two calls of updateAdmin in flight at once, each for    *)
(* the onboarded admin or for an AdminID nobody has, with any patch; their *)
(* statements interleave freely and any of them can be rejected.           *)
(***************************************************************************)
InitConcurrent ==
  /\ JWT_SECRET = "s3cret"
  /\ EarlierState
  /\ call \in { ConcurrentUpdates(calls) :
                  calls \in [ Updaters -> { StartUpdate(id, updateData) :
                                              id \in {1, 9}, updateData \in ConcurrentData } ] }

NextConcurrent ==
  \/ \E u \in Updaters : SelectAdmin(u)
  \/ \E u \in Updaters : CompareOldPassword(u)
  \/ \E u \in Updaters : UpdateRow(u)
  \/ \E u \in Updaters : UpdateFault(u)

SpecConcurrent == InitConcurrent /\ [][NextConcurrent]_vars

(***************************************************************************)
(* SpecIssue: the two endpoints that issue tokens while a profile update   *)
(* is in flight.  A request is onboarded and answered, a login for the     *)
(* earlier admin or the new one is answered, and one call of updateAdmin   *)
(* for either admin changes the name or the password; all three interleave *)
(* at their awaits, and a statement of the onboarding transaction can be   *)
(* rejected.                                                               *)
(***************************************************************************)
IssueData ==
  { d \in ConcurrentData :
      /\ d.phone = Absent
      /\ d.password \in {Absent, "N3wpass@2"} /\ d.oldPassword \in {Absent, "Passw0rd@1"}
      /\ (d.fullName # Absent \/ d.password # Absent) }

InitIssue ==
  /\ JWT_SECRET = "s3cret"
  /\ EarlierState
  /\ call \in { [ ConcurrentUpdates(calls) EXCEPT !.login = StartLogin(email, password) ] :
                  calls \in [ {"u1"} -> { StartUpdate(id, updateData) :
                                            id \in {1, 2}, updateData \in IssueData } ],
                  email \in LoginEmails,
                  password \in {"Passw0rd@1", "N3wpass@2"} }

NextIssue ==
  \/ Onboarding
  \/ \E p \in Procs : StatementFault(p)
  \/ \E p \in Procs : onboardAdminHandler(p)
  \/ LoginSelect
  \/ LoginAnswer
  \/ \E u \in Updaters : SelectAdmin(u)
  \/ \E u \in Updaters : CompareOldPassword(u)
  \/ \E u \in Updaters : UpdateRow(u)

SpecIssue == InitIssue /\ [][NextIssue]_vars

(***************************************************************************)
(* SpecFailures: the three services against a storage layer and a bcrypt   *)
(* that can reject any call: an onboarding, a login and a profile update   *)
(* run side by side, each with its failure paths.                          *)
(***************************************************************************)
InitFailures ==
  /\ JWT_SECRET = "s3cret"
  /\ EarlierState
  /\ call \in { [ ConcurrentUpdates(calls) EXCEPT !.login = StartLogin(email, password) ] :
                  calls \in [ {"u1"} -> { StartUpdate(id, updateData) :
                                            id \in {1, 9}, updateData \in IssueData } ],
                  email \in LoginEmails,
                  password \in {"Passw0rd@1", "N3wpass@2"} }

NextFailures ==
  \/ Onboarding
  \/ Faults
  \/ LoginSelect
  \/ LoginAnswer
  \/ LoginFault
  \/ \E u \in Updaters : SelectAdmin(u)
  \/ \E u \in Updaters : CompareOldPassword(u)
  \/ \E u \in Updaters : UpdateRow(u)
  \/ \E u \in Updaters : UpdateFault(u)

SpecFailures == InitFailures /\ [][NextFailures]_vars

(***************************************************************************)
(* SpecRole: the checks of onboardAdmin, steps 1 to 6, for one request     *)
(* against invitation codes bound to any role identifier, including one    *)
(* that the Role store does not hold.                                      *)
(***************************************************************************)
InitRole ==
  /\ Admin = {}
  /\ \E role1 \in RoleIDs, role2 \in RoleIDs :
       InvitationCode =
         (1 :> CodeRow(1, "INVITE01", role1, TRUE, FALSE, NoTime, NULL)) @@
         (2 :> CodeRow(2, "INVITE02", role2, TRUE, FALSE, 0, NULL))
  /\ nextAdminID = 1
  /\ now = 0
  /\ JWT_SECRET = "s3cret"
  /\ InitProcs

NextRole ==
  \/ ValidateInvitationCode("r1")
  \/ RoleMatch("r1")
  \/ CheckStudentID("r1")
  \/ CheckEmail("r1")
  \/ ValidateRole("r1")
  \/ ValidateBranch("r1")

SpecRole == InitRole /\ [][NextRole]_vars

(***************************************************************************)
(* SpecAnswer: the three handlers, each with a request to answer, on a     *)
(* storage layer and a bcrypt that can reject any call.  Every call the    *)
(* services await settles (the driver answers or rejects), and the event   *)
(* loop runs every continuation that is ready: weak fairness of the next   *)
(* step.                                                                   *)
(***************************************************************************)
InitAnswer ==
  /\ JWT_SECRET \in {"", "s3cret"}
  /\ EarlierState
  /\ call \in { [ ConcurrentUpdates(calls) EXCEPT !.login = StartLogin("z@x.org", password) ] :
                  calls \in [ {"u1"} -> { ReceivedUpdate(adminId, updateData) :
                                            adminId \in {"1", "9", "abc"},
                                            updateData \in { d \in IssueData :
                                                               d.fullName # Absent
                                                               /\ d.password # Absent } } ],
                  password \in {"Passw0rd@1", "N3wpass@2"} }

\* The request to onboard comes from one applicant: any code, role and
\* branch, one student identifier and email.
OneApplicant ==
  (pc["r1"] = "idle" /\ pc'["r1"] # "idle") =>
    /\ validatedData'["r1"].studentID = "CS001"
    /\ validatedData'["r1"].email = "a@x.org"

NextAnswer ==
  /\ \/ Onboarding
     \/ Faults
     \/ \E p \in Procs : OnboardHandlerAnswers(p)
     \/ LoginSelect
     \/ LoginAnswer
     \/ LoginFault
     \/ \E u \in Updaters : UpdateHandlerEnters(u)
     \/ \E u \in Updaters : SelectAdmin(u)
     \/ \E u \in Updaters : CompareOldPassword(u)
     \/ \E u \in Updaters : UpdateRow(u)
     \/ \E u \in Updaters : UpdateFault(u)
     \/ \E u \in Updaters : UpdateHandlerAnswers(u)
  /\ OneApplicant

SpecAnswer == InitAnswer /\ [][NextAnswer]_vars /\ WF_vars(NextAnswer)

(***************************************************************************)
(* Properties.                                                             *)
(***************************************************************************)
Succeeded(p) == pc[p] = "done" /\ result[p].kind = "admin"
Failed(p) == pc[p] = "failed" /\ result[p].kind = "error"
FailedWith(p, errorCode) == Failed(p) /\ result[p].errorCode = errorCode
Finished(p) == pc[p] \in {"done", "failed"}
\* The request got as far as the atomic write.
ReachedWrite(p) == passwordHash[p] # NoHash
CodeRowsOf(code) ==
  { InvitationCode[i] : i \in { j \in DOMAIN InvitationCode : InvitationCode[j].Code = code } }

\* C1: two concurrent onboardings with the same invitation code and
\* different student identifiers and emails never both return an Admin.
C1_SameCodeAtMostOneSucceeds ==
  \A p, q \in Procs :
    ( /\ p # q
      /\ validatedData[p].invitationCode = validatedData[q].invitationCode
      /\ validatedData[p].studentID # validatedData[q].studentID
      /\ validatedData[p].email # validatedData[q].email )
    => ~(Succeeded(p) /\ Succeeded(q))

\* C2: in every committed state an admin row exists if and only if the code
\* it was onboarded with is used and names that admin in UsedByAdminID.
C2_AdminIffCodeConsumed ==
  /\ \A a \in Admin :
       \E ic \in CodeRowsOf(a.InvitationCode) :
         ic.IsUsed /\ ic.UsedByAdminID = a.AdminID
  /\ \A i \in DOMAIN InvitationCode :
       InvitationCode[i].IsUsed =>
         \E a \in Admin : /\ a.AdminID = InvitationCode[i].UsedByAdminID
                          /\ a.InvitationCode = InvitationCode[i].Code

\* C3: IsUsed of a code never returns to false, and UsedByAdminID, once set,
\* is never overwritten with another admin's ID.
C3_UsedOnceNeverOverwritten ==
  [][ \A i \in DOMAIN InvitationCode :
        /\ InvitationCode[i].IsUsed => InvitationCode'[i].IsUsed
        /\ InvitationCode[i].UsedByAdminID # NULL =>
             InvitationCode'[i].UsedByAdminID = InvitationCode[i].UsedByAdminID ]_vars

\* What a request that has run validateInvitationCode was told.
Verdict(p) ==
  IF pc[p] = "failed" THEN result[p].errorCode ELSE "eligible"

\* C7: validateInvitationCode reports exactly one of not-found, inactive,
\* already-used, expired, eligible: the first defect in the order existence,
\* active, used, expiry.
C7_ExactlyOneVerdictInOrder ==
  \A p \in Procs : pc[p] # "idle" =>
    LET rows == CodeRowsOf(validatedData[p].invitationCode)
        present == rows # {}
        ic == CHOOSE r \in rows : TRUE
        expired == ic.ExpiresAt # NoTime /\ ic.ExpiresAt < now
    IN /\ Verdict(p) \in { "INVALID_INVITATION_CODE", "INVITATION_CODE_INACTIVE",
                           "INVITATION_CODE_ALREADY_USED", "INVITATION_CODE_EXPIRED",
                           "eligible" }
       /\ Verdict(p) = "INVALID_INVITATION_CODE" <=> ~present
       /\ Verdict(p) = "INVITATION_CODE_INACTIVE" <=> present /\ ~ic.IsActive
       /\ Verdict(p) = "INVITATION_CODE_ALREADY_USED" <=>
            present /\ ic.IsActive /\ ic.IsUsed
       /\ Verdict(p) = "INVITATION_CODE_EXPIRED" <=>
            present /\ ic.IsActive /\ ~ic.IsUsed /\ expired
       /\ Verdict(p) = "eligible" <=>
            present /\ ic.IsActive /\ ~ic.IsUsed /\ ~expired
       /\ Verdict(p) = "eligible" => pc[p] = "roleMatch" /\ invitationCode[p] = ic

\* C7 witness: an inactive, used and expired code was reported inactive.
C7_Witness ==
  \E p \in Procs :
    /\ FailedWith(p, "INVITATION_CODE_INACTIVE")
    /\ \E ic \in CodeRowsOf(validatedData[p].invitationCode) :
         ~ic.IsActive /\ ic.IsUsed /\ ic.ExpiresAt # NoTime /\ ic.ExpiresAt < now

\* C4: no two admin rows share a student identifier, and no two share an
\* email, in any state onboardings and profile updates produce.
C4_UniqueStudentIDAndEmail ==
  \A a, b \in Admin :
    a # b => a.StudentID # b.StudentID /\ a.Email # b.Email

\* C4 witness: an admin was onboarded and updated, and a concurrent request
\* that collided with it on a unique key at write time was turned away.
C4_Witness ==
  /\ \E a \in Admin : a.UpdatedAt # NoTime
  /\ \E p \in Procs : Failed(p) /\ txError[p] = PgUniqueViolation

\* Two requests that both reached the atomic write, with different
\* invitation codes and the same student identifier or the same email.
RaceOnIdentity(p, q) ==
  /\ p # q
  /\ ReachedWrite(p) /\ ReachedWrite(q)
  /\ validatedData[p].invitationCode # validatedData[q].invitationCode
  /\ \/ validatedData[p].studentID = validatedData[q].studentID
     \/ validatedData[p].email = validatedData[q].email

\* C5: of two concurrent onboardings with different eligible codes and the
\* same student identifier or email that both passed the pre-checks, exactly
\* one succeeds and the other fails.
C5_IdentityRaceExactlyOneSucceeds ==
  \A p, q \in Procs :
    (RaceOnIdentity(p, q) /\ Finished(p) /\ Finished(q)) =>
      \/ Succeeded(p) /\ Failed(q)
      \/ Succeeded(q) /\ Failed(p)

\* C5 witness: such a race has run to its end.
C5_Witness ==
  \E p, q \in Procs :
    /\ RaceOnIdentity(p, q)
    /\ validatedData[p].studentID = validatedData[q].studentID
    /\ validatedData[p].email # validatedData[q].email
    /\ Succeeded(p) /\ Failed(q)

\* C6: a uniqueness violation detected inside the atomic write reaches the
\* caller as the conflict the pre-check would have raised: status 409 with
\* DUPLICATE_STUDENT_ID or DUPLICATE_EMAIL.
C6_WriteTimeConflictIsTyped ==
  \A p \in Procs :
    (Failed(p) /\ txError[p] = PgUniqueViolation) =>
      LET response == globalErrorHandler(result[p]) IN
        /\ response.status = 409
        /\ response.code =
             IF checkStudentIDExists(Admin, validatedData[p].studentID)
               THEN "DUPLICATE_STUDENT_ID" ELSE "DUPLICATE_EMAIL"

\* The request passed step 1 and submits a role other than its code's.
RoleMismatch(p) ==
  /\ invitationCode[p] # NoRow
  /\ validatedData[p].roleID # invitationCode[p].RoleID

\* C8: onboarding with an eligible code and a roleID other than the code's
\* RoleID always fails with INVALID_ROLE and writes nothing.
C8_RoleMismatchAlwaysInvalidRole ==
  /\ [](\A p \in Procs :
          (RoleMismatch(p) /\ pc[p] # "roleMatch") =>
            /\ Failed(p)
            /\ result[p] = createValidationError("INVALID_ROLE")
            /\ ~ReachedWrite(p)
            /\ createdAdmin[p] = NoAdmin /\ codeLocked[p] = NULL)
  /\ [][ \A p \in Procs :
           (RoleMismatch(p) /\ pc'[p] # pc[p]) =>
             /\ pc[p] = "roleMatch" /\ pc'[p] = "failed"
             /\ dbVars' = dbVars /\ txVars' = txVars ]_vars

\* C8 witness: a request naming an existing role that is not its code's,
\* with a student identifier already taken, failed with INVALID_ROLE.
C8_Witness ==
  \E p \in Procs :
    /\ RoleMismatch(p)
    /\ validatedData[p].roleID \in Role
    /\ checkStudentIDExists(Admin, validatedData[p].studentID)
    /\ FailedWith(p, "INVALID_ROLE")

\* C9: every admin holds the role bound to the invitation code it was
\* onboarded with, whatever onboardings and updates have run.
C9_AdminRoleIsCodeRole ==
  \A a \in Admin :
    \E ic \in CodeRowsOf(a.InvitationCode) : a.RoleID = ic.RoleID

\* C9 witness: an admin that was onboarded and then updated.
C9_Witness ==
  \E a \in Admin :
    /\ a.UpdatedAt # NoTime /\ a.FullName = "Jane Roe"
    /\ \E ic \in CodeRowsOf(a.InvitationCode) : a.RoleID = ic.RoleID

\* The checks of onboardAdmin in their order: step k runs from position
\* CheckSteps[k] and, when it passes, hands over to CheckSteps[k + 1].
CheckSteps ==
  << "idle", "roleMatch", "checkStudentID", "checkEmail", "validateRole",
     "validateBranch", "hashPassword" >>

StepErrors ==
  << { "INVALID_INVITATION_CODE", "INVITATION_CODE_INACTIVE",
       "INVITATION_CODE_ALREADY_USED", "INVITATION_CODE_EXPIRED" },
     { "INVALID_ROLE" }, { "DUPLICATE_STUDENT_ID" }, { "DUPLICATE_EMAIL" },
     { "INVALID_ROLE" }, { "INVALID_BRANCH" } >>

\* What step k finds wrong with candidate `data` in the current stores.
Defect(k, p, data) ==
  CASE k = 1 -> ~\E ic \in CodeRowsOf(data.invitationCode) :
                   /\ ic.IsActive /\ ~ic.IsUsed
                   /\ (ic.ExpiresAt = NoTime \/ ic.ExpiresAt >= now)
    [] k = 2 -> data.roleID # invitationCode[p].RoleID
    [] k = 3 -> \E a \in Admin : a.StudentID = data.studentID
    [] k = 4 -> \E a \in Admin : a.Email = data.email
    [] k = 5 -> data.roleID \notin Role
    [] k = 6 -> data.branchID # NoBranch /\ data.branchID \notin Branch

\* C10: onboardAdmin runs its checks in the order invitation code, role
\* match, student identifier, email, role exists, branch exists; the first
\* check that fails ends the request with that check's error, and nothing
\* after it (hashing, the atomic write) runs.
C10_ChecksInOrderStopAtFirstFailure ==
  [][ \A p \in Procs :
        /\ \A k \in 1 .. 6 :
             (pc[p] = CheckSteps[k] /\ pc'[p] # pc[p]) =>
               IF Defect(k, p, validatedData'[p])
                 THEN /\ pc'[p] = "failed"
                      /\ result'[p].kind = "error"
                      /\ result'[p].errorCode \in StepErrors[k]
                      /\ passwordHash'[p] = NoHash
                      /\ createdAdmin'[p] = NoAdmin
                      /\ dbVars' = dbVars
                 ELSE /\ pc'[p] = CheckSteps[k + 1]
                      /\ result'[p] = NoResult
        /\ pc[p] = "failed" =>
             /\ pc'[p] = "failed" /\ result'[p] = result[p]
             /\ passwordHash'[p] = passwordHash[p]
             /\ createdAdmin'[p] = createdAdmin[p] ]_vars

\* C10 witness: a candidate with a role mismatch, a taken student
\* identifier and an unknown branch was turned away at the role match,
\* before any hashing.
C10_Witness ==
  \E p \in Procs :
    /\ RoleMismatch(p)
    /\ checkStudentIDExists(Admin, validatedData[p].studentID)
    /\ validatedData[p].branchID # NoBranch
    /\ validatedData[p].branchID \notin Branch
    /\ FailedWith(p, "INVALID_ROLE")
    /\ passwordHash[p] = NoHash

\* The positions of steps 1-7 of onboardAdmin.
PreWrite == { CheckSteps[k] : k \in 1 .. 7 }

\* C11: a step of onboardAdmin taken at any of steps 1-7, failing or not,
\* leaves the Admin and InvitationCode stores, the AdminID sequence and the
\* connection pool untouched and stages nothing (Role and Branch are never
\* written at all); of all the steps of a request only COMMIT changes the
\* Admin and InvitationCode stores.
C11_OnlyTheAtomicWriteWrites ==
  [][ \A p \in Procs :
        /\ (pc[p] \in PreWrite /\ pc'[p] # pc[p]) =>
             /\ dbVars' = dbVars
             /\ txVars' = txVars
        /\ (pc'[p] # pc[p] /\ << Admin, InvitationCode >>' # << Admin, InvitationCode >>) =>
             pc[p] = "commit" ]_vars

\* C11 witness: a request that passed every check failed at hashing, and the
\* stores hold what they held before it arrived.
C11_Witness ==
  \E p \in Procs :
    /\ FailedWith(p, "INTERNAL_ERROR")
    /\ invitationCode[p] # NoRow
    /\ client[p] = << >>
    /\ Admin = {EarlierAdmin}
    /\ nextAdminID = 2

\* The request's BEGIN succeeded and a later statement of the transaction
\* failed (the INSERT, the UPDATE, an UPDATE of zero rows, or COMMIT).
FailedAfterBegin(p) ==
  /\ txError[p] # NoResult
  /\ Len(client[p]) >= 3 /\ client[p][3] = "INSERT"

\* C12: when a statement of the atomic creation fails after BEGIN, no step
\* the request takes from then on changes the committed Admin and
\* InvitationCode stores, and the caller receives TRANSACTION_FAILED.
C12_FailedWriteLeavesStoresAndReports ==
  /\ [](\A p \in Procs :
          (FailedAfterBegin(p) /\ pc[p] = "failed") =>
            result[p] = createServerError("TRANSACTION_FAILED"))
  /\ [][ \A p \in Procs :
           (txError'[p] # NoResult /\ pc'[p] # pc[p]) =>
             Admin' = Admin /\ InvitationCode' = InvitationCode ]_vars

\* How often the request has given its connection back.
Releases(p) ==
  Cardinality({ i \in 1 .. Len(client[p]) : client[p][i] = "release" })

\* C13: a request that acquired a connection releases it exactly once, as
\* the last thing it does with it, on success and on every failure path; on
\* a failure path the ROLLBACK is sent right before the release.
C13_ReleasedExactlyOnceAfterRollback ==
  \A p \in Procs :
    LET log == client[p]
        n == Len(log)
    IN /\ Releases(p) <= 1
       /\ Releases(p) = 1 => log[n] = "release"
       /\ (Finished(p) /\ n > 0) =>
            /\ log[1] = "connect"
            /\ log[n] = "release"
            /\ pc[p] = "failed" => log[n - 1] = "ROLLBACK"
            /\ pc[p] = "done" => log[n - 1] = "COMMIT"

\* C13 witness: the UPDATE matched no row (the code was removed after it
\* was validated); the request rolled back, released and failed.
C13_Witness ==
  \E p \in Procs :
    /\ pc[p] = "failed" /\ txError[p] = JsError
    /\ client[p] = << "connect", "BEGIN", "INSERT", "UPDATE", "ROLLBACK", "release" >>

\* Request p arrives in this step, after a request that named the same
\* invitation code has succeeded.
ArrivesAfterSuccess(p) ==
  /\ pc[p] = "idle" /\ pc'[p] # "idle"
  /\ \E q \in Procs \ {p} :
       /\ Succeeded(q)
       /\ validatedData[q].invitationCode = validatedData'[p].invitationCode

\* C14 as stated: a request naming an invitation code that an earlier
\* onboarding has succeeded with fails with INVITATION_CODE_ALREADY_USED or
\* TRANSACTION_FAILED, is answered with the conflict status 409, and creates
\* no admin.
C14_LaterUseIsAConflict ==
  [][ \A p \in Procs :
        ArrivesAfterSuccess(p) =>
          /\ pc'[p] = "failed"
          /\ result'[p].kind = "error"
          /\ result'[p].errorCode \in
               { "INVITATION_CODE_ALREADY_USED", "TRANSACTION_FAILED" }
          /\ globalErrorHandler(result'[p]).status = 409
          /\ dbVars' = dbVars /\ txVars' = txVars ]_vars

\* C14 as amended: such a request fails at once with
\* INVITATION_CODE_ALREADY_USED, is answered with the validation status 400,
\* and creates no admin.
C14_LaterUseIsRejectedAsUsed ==
  [][ \A p \in Procs :
        ArrivesAfterSuccess(p) =>
          /\ pc'[p] = "failed"
          /\ result'[p] = createValidationError("INVITATION_CODE_ALREADY_USED")
          /\ globalErrorHandler(result'[p]) =
               [status |-> 400, code |-> "INVITATION_CODE_ALREADY_USED"]
          /\ dbVars' = dbVars /\ txVars' = txVars ]_vars

\* C14 witness: after a success with INVITE02, whose expiry has since
\* passed, a request naming it with another student identifier and email
\* was rejected as already used.
C14_Witness ==
  \E p, q \in Procs :
    /\ Succeeded(q) /\ FailedWith(p, "INVITATION_CODE_ALREADY_USED")
    /\ validatedData[p].invitationCode = "INVITE02"
    /\ validatedData[q].invitationCode = "INVITE02"
    /\ validatedData[p].studentID # validatedData[q].studentID
    /\ validatedData[p].email # validatedData[q].email
    /\ now > 0
    /\ Cardinality(Admin) = 1

\* The request was answered with a failure.
AnsweredFailure(p) == res[p] # NoResult /\ res[p].status >= 400

\* C15: a request on the onboard endpoint that is answered with a failure
\* has created no admin and consumed no invitation code.
C15_FailureResponseMeansNothingWritten ==
  \A p \in Procs :
    AnsweredFailure(p) =>
      /\ createdAdmin[p] \notin Admin
      /\ \A i \in DOMAIN InvitationCode :
           InvitationCode[i].IsUsed =>
             InvitationCode[i].UsedByAdminID # createdAdmin[p].AdminID

\* The last request was a login that failed.
LoginFailed == call.op = "login" /\ call.result.kind = "error"

\* C16: a login with an email no admin has and a login with an existing
\* email and a wrong password get the same error and the same response
\* (status, error code, message), whatever the stores hold.
C16_LoginFailureHidesExistence ==
  /\ \A e1, e2 \in LoginEmails, pw1, pw2 \in LoginPasswords :
       ( /\ ~checkEmailExists(Admin, e1)
         /\ \E a \in Admin : a.Email = e2 /\ ~bcryptCompare(pw2, a.PasswordHash) )
       => LET unknown == loginAdmin(Admin, e1, pw1)
              wrong == loginAdmin(Admin, e2, pw2)
          IN /\ unknown.kind = "error" /\ wrong.kind = "error"
             /\ unknown.statusCode = wrong.statusCode
             /\ unknown.errorCode = wrong.errorCode
             /\ unknown.message = wrong.message
             /\ globalErrorHandler(unknown) = globalErrorHandler(wrong)
  /\ LoginFailed =>
       \A e1 \in LoginEmails, pw1 \in LoginPasswords :
         ~checkEmailExists(Admin, e1) =>
           call.res = globalErrorHandler(loginAdmin(Admin, e1, pw1))

\* C16 witness: a login with an existing email and a wrong password has
\* failed while another email of the domain belongs to no admin.
C16_Witness ==
  /\ LoginFailed
  /\ call.email = "z@x.org" /\ call.password = "N3wpass@2"
  /\ ~checkEmailExists(Admin, "a@x.org")

\* C17: a failed login (unknown email, or wrong password) is answered with
\* status 401, error code INVALID_INPUT and the message "Invalid email or
\* password".
C17_LoginFailureIs401 ==
  LoginFailed =>
    call.res = [ status |-> 401, code |-> "INVALID_INPUT",
                 message |-> "Invalid email or password" ]

\* loginAdmin(email, password) would succeed against the store `admins`.
LogsIn(admins, email, password) == loginAdmin(admins, email, password).kind = "admin"

AllPasswords == Passwords \cup LoginPasswords \cup {"N3wpass@2", Long72}

\* The pending PUT request is answered 200 in this step and carries a password.
PasswordChanged ==
  /\ call.op = "put" /\ call.res = NoResult
  /\ call'.op = "put" /\ call'.res # NoResult /\ call'.res.status = 200
  /\ Present(call.req.body.password)

\* C18: loginAdmin(email, pw) succeeds exactly when an admin has that email
\* and pw is the password last set for it.  Right after an onboarding
\* commits, exactly the candidate's password logs in; right after a
\* successful password change, exactly the new password logs in; no other
\* step changes which passwords log in for an existing admin; a login
\* request succeeds exactly when its password logs in; no password logs in
\* for an email no admin has.
C18_LoginIffLastSetPassword ==
  [][ /\ \A p \in Procs :
           (pc[p] = "commit" /\ pc'[p] = "release") =>
             \A pw \in AllPasswords :
               LogsIn(Admin', validatedData[p].email, pw) <=> pw = validatedData[p].password
      /\ PasswordChanged =>
           LET target == CHOOSE a \in Admin' : a.AdminID = parseInt(call.req.adminId) IN
             \A pw \in AllPasswords :
               LogsIn(Admin', target.Email, pw) <=> pw = call.req.body.password
      /\ \A a \in Admin :
           ~(PasswordChanged /\ a.AdminID = parseInt(call.req.adminId)) =>
             \A pw \in AllPasswords :
               LogsIn(Admin', a.Email, pw) <=> LogsIn(Admin, a.Email, pw)
      /\ (call'.op = "login" /\ call' # call) =>
           (call'.result.kind = "admin" <=> LogsIn(Admin, call'.email, call'.password))
      /\ \A e \in LoginEmails, pw \in AllPasswords :
           ~checkEmailExists(Admin', e) => ~LogsIn(Admin', e, pw) ]_vars

\* The PUT request has been answered.
Answered == call.op = "put" /\ call.res # NoResult

\* The request waiting for its answer is authenticated and authorized, and
\* its body has a password and no oldPassword, or an empty one.
PasswordWithoutOld ==
  /\ call.op = "put" /\ call.res = NoResult
  /\ \A k \in 1 .. 3 : ChainError(k, call.req) = NoResult
  /\ Present(call.req.body.password)
  /\ ~Truthy(call.req.body.oldPassword)

\* What belongs to the service: the controller, updateAdmin, its statements
\* and its bcrypt calls.
ServiceOps ==
  {"updateAdminHandler", "updateAdmin", "SELECT", "UPDATE", "bcrypt.compare", "bcrypt.hash"}

\* The answered request never got to the service.
BeforeTheService(c) == \A i \in DOMAIN c.ran : c.ran[i] \notin ServiceOps

\* C19 as stated: a profile update whose body has a password and no (or an
\* empty) oldPassword fails with MISSING_FIELD before the service is called,
\* with no hashing, no comparison and no store access.
C19_PasswordWithoutOldIsMissingField ==
  [][ PasswordWithoutOld =>
        /\ call'.res.code = "MISSING_FIELD"
        /\ BeforeTheService(call')
        /\ dbVars' = dbVars ]_vars

\* C19 as amended: such an update always fails with status 400 before the
\* service is called, with no hashing, no comparison and no store access;
\* the error is that of an invalid fullName, else that of an invalid phone,
\* and MISSING_FIELD when neither is invalid.
C19_PasswordWithoutOldFailsBeforeService ==
  [][ PasswordWithoutOld =>
        LET body == call.req.body
            badName == Present(body.fullName) /\ validateFullName(body.fullName) # NoResult
            badPhone == Present(body.phone) /\ validatePhone(body.phone) # NoResult
        IN /\ call'.res.status = 400
           /\ call'.res.code =
                IF badName THEN validateFullName(body.fullName).errorCode
                ELSE IF badPhone THEN validatePhone(body.phone).errorCode
                ELSE "MISSING_FIELD"
           /\ (~badName /\ ~badPhone) =>
                call'.res.message = "Old password is required to set new password"
           /\ call'.ran = SubSeq(Chain, 1, 4)
           /\ BeforeTheService(call')
           /\ dbVars' = dbVars ]_vars

\* C19 witness: an admin's request to change their own name and password,
\* sent with a strong new password and an empty oldPassword, was answered
\* MISSING_FIELD by validateAdminUpdateInput.
C19_Witness ==
  /\ Answered
  /\ call.req.body.fullName = "Jane Roe"
  /\ call.req.body.password = "N3wpass@2"
  /\ call.req.body.oldPassword = ""
  /\ call.req.token.kind = "jwt" /\ call.req.token.adminID = parseInt(call.req.adminId)
  /\ call.res.code = "MISSING_FIELD"
  /\ call.ran = SubSeq(Chain, 1, 4)

\* C20: a PUT request whose body is the empty object {}, sent by an
\* authenticated and authorized admin, is answered INVALID_INPUT and never
\* reaches updateAdmin.
C20_EmptyPatchIsInvalidInput ==
  ( /\ Answered
    /\ Keys(call.req.body) = {}
    /\ \A k \in 2 .. 3 : ChainError(k, call.req) = NoResult )
  => /\ call.res.code = "INVALID_INPUT"
     /\ \A i \in DOMAIN call.ran : call.ran[i] # "updateAdmin"

\* The call of updateAdmin returns or throws in this step.
UpdateReturns == call.op = "updateAdmin" /\ call.result = NoResult /\ call'.result # NoResult

\* The admin row a call of updateAdmin names, if there is one.
Target(admins, AdminID) == { a \in admins : a.AdminID = AdminID }

\* The call carries a new password and an oldPassword that does not verify
\* against the hash stored for the admin it names.
WrongOldPassword ==
  /\ call.updateData.password # Absent
  /\ \E a \in Target(Admin, call.AdminID) :
       ~bcryptCompare(call.updateData.oldPassword, a.PasswordHash)

\* C21: updateAdmin with a password and an oldPassword that does not verify
\* throws the 400 INVALID_INPUT error "Current password is incorrect" and
\* leaves every store as it was: neither the hash nor a fullName or phone of
\* the same patch is written, UpdatedAt is not refreshed, and no new hash is
\* computed.
C21_WrongOldPasswordWritesNothing ==
  [][ (UpdateReturns /\ WrongOldPassword) =>
        /\ call'.result =
             WithMessage(createValidationError("INVALID_INPUT"),
                         "Current password is incorrect")
        /\ Admin' = Admin
        /\ InvitationCode' = InvitationCode
        /\ call'.ran = << "SELECT", "bcrypt.compare" >> ]_vars

\* C21 witness: a patch with a new name, a new phone, a new password and a
\* wrong oldPassword was refused and the admin it named is as onboarded.
C21_Witness ==
  /\ call.op = "updateAdmin" /\ call.result.kind = "error"
  /\ call.AdminID = 1
  /\ call.updateData = [ fullName |-> "Jane Roe", phone |-> "+922",
                         password |-> "N3wpass@2", oldPassword |-> "N3wpass@2" ]
  /\ call.result.errorCode = "INVALID_INPUT"
  /\ EarlierAdmin \in Admin

\* C22: updateAdmin for an AdminID that no admin row has throws the 404
\* error "Admin not found" whatever the patch holds; it has sent its SELECT
\* and nothing else: no bcrypt call, no UPDATE, and no store changes.
C22_UnknownAdminIsNotFound ==
  [][ (UpdateReturns /\ Target(Admin, call.AdminID) = {}) =>
        /\ call'.result.kind = "error"
        /\ call'.result.statusCode = 404
        /\ call'.result.message = "Admin not found"
        /\ call'.ran = << "SELECT" >>
        /\ dbVars' = dbVars ]_vars

\* C22 witness: a patch with a password, sent for AdminID 9 while two admins
\* exist, was answered not found.
C22_Witness ==
  /\ call.op = "updateAdmin" /\ call.result.kind = "error"
  /\ call.AdminID = 9
  /\ call.updateData.password # Absent /\ call.updateData.fullName # Absent
  /\ call.result.statusCode = 404
  /\ Cardinality(Admin) = 2

\* The call of updateAdmin returns an admin in this step.
UpdateSucceeds == UpdateReturns /\ call'.result.kind = "admin"

\* C23: a successful updateAdmin replaces the one row it names by a row that
\* differs from it in the supplied fields only (FullName, Phone, and a
\* PasswordHash that verifies the new password) and in UpdatedAt, which is
\* set to the current time; every other field, every other admin row, the
\* invitation codes and the AdminID sequence are as before.
C23_UpdateWritesSuppliedFieldsOnly ==
  [][ UpdateSucceeds =>
        \E a \in Admin, b \in Admin' :
          LET patch == call.updateData IN
          /\ a.AdminID = call.AdminID
          /\ Admin' = (Admin \ {a}) \cup {b}
          /\ Cardinality(Admin') = Cardinality(Admin)
          /\ b.FullName = IF patch.fullName # Absent THEN patch.fullName ELSE a.FullName
          /\ b.Phone = IF patch.phone # Absent THEN patch.phone ELSE a.Phone
          /\ IF patch.password # Absent
               THEN bcryptCompare(patch.password, b.PasswordHash)
               ELSE b.PasswordHash = a.PasswordHash
          /\ b.UpdatedAt = now
          /\ b = [a EXCEPT !.FullName = b.FullName, !.Phone = b.Phone,
                           !.PasswordHash = b.PasswordHash, !.UpdatedAt = b.UpdatedAt]
          /\ InvitationCode' = InvitationCode
          /\ nextAdminID' = nextAdminID ]_vars

\* C23 witness: with two admins in the store, a patch of the name alone was
\* applied to the first: its name is new, its phone and its hash are as
\* onboarded, and UpdatedAt is set.
C23_Witness ==
  /\ call.op = "updateAdmin" /\ call.result.kind = "admin"
  /\ call.AdminID = 1
  /\ call.updateData = [ fullName |-> "Jane Roe", phone |-> Absent,
                         password |-> Absent, oldPassword |-> Absent ]
  /\ Cardinality(Admin) = 2
  /\ \E b \in Admin :
       /\ b = [EarlierAdmin EXCEPT !.FullName = "Jane Roe", !.UpdatedAt = now]
       /\ b.UpdatedAt # NoTime

\* The record has no PasswordHash field.
NoHashIn(r) == "PasswordHash" \notin DOMAIN r

\* C24: no success result carries the password hash: not the admin
\* onboardAdmin returns, not the 201 response and its token, not the admin
\* loginAdmin returns, not the 200 response of a login and its token, and
\* not the 200 response of a profile update.
C24_NoSuccessResultCarriesTheHash ==
  /\ \A p \in Procs :
       /\ result[p].kind = "admin" => NoHashIn(result[p].admin)
       /\ (res[p] # NoResult /\ res[p].status = 201) =>
            NoHashIn(res[p].admin) /\ NoHashIn(res[p].token)
  /\ (call.op = "login" /\ call.result.kind = "admin") =>
       /\ NoHashIn(call.result.admin)
       /\ call.res.status = 200 /\ NoHashIn(call.res.admin) /\ NoHashIn(call.res.token)
  /\ (call.op = "put" /\ call.res # NoResult /\ call.res.status = 200) =>
       NoHashIn(call.res.admin)

\* C24 witness: the second admin was onboarded and answered 201, and then
\* changed their password and was answered 200.
C24_Witness ==
  /\ \E p \in Procs : res[p] # NoResult /\ res[p].status = 201 /\ res[p].admin.AdminID = 2
  /\ call.op = "put" /\ call.res # NoResult /\ call.res.status = 200
  /\ call.res.admin.AdminID = 2
  /\ Present(call.req.body.password)

\* verifyJWT has returned or thrown.
Verified == call.op = "verifyJWT" /\ call.result # NoResult

\* C25: verifyJWT throws an Unauthorized error (status 401, code
\* UNAUTHORIZED) for a token whose signature is invalid, that has expired,
\* or whose issuer or audience does not match, and returns the claims only
\* for a token that passes the three checks.
C25_VerifyFailsUnauthorized ==
  (Verified /\ JWT_SECRET # "") =>
    LET token == call.token
        signed == token.kind = "jwt" /\ token.secret = JWT_SECRET
        live == token.kind = "jwt" /\ call.at < token.exp
        addressed == /\ token.kind = "jwt"
                     /\ token.issuer = "gfg-event-management"
                     /\ token.audience = "admin-api"
    IN /\ ~(signed /\ live /\ addressed) =>
            /\ call.result.kind = "error"
            /\ call.result.statusCode = 401
            /\ call.result.errorCode = "UNAUTHORIZED"
       /\ call.result.kind = "claims" => signed /\ live /\ addressed

\* The AdminIDs of the rows of a store.
IDs(admins) == { a.AdminID : a \in admins }

\* C26: the set of admin rows only grows.  Every row stays, under its
\* AdminID, with its StudentID and its Email; a row with a new AdminID
\* appears only in the COMMIT of an onboarding that then succeeds, and it is
\* the row that onboarding inserted.
C26_AdminRowsOnlyGrow ==
  [][ /\ \A a \in Admin :
           \E b \in Admin' :
             b.AdminID = a.AdminID /\ b.StudentID = a.StudentID /\ b.Email = a.Email
      /\ Cardinality(IDs(Admin')) = Cardinality(Admin')
      /\ \A b \in Admin' :
           b.AdminID \notin IDs(Admin) =>
             \E p \in Procs :
               /\ pc[p] = "commit" /\ pc'[p] = "release"
               /\ txError'[p] = NoResult
               /\ b = createdAdmin[p] ]_vars

\* C26 witness: the first admin has changed their password and logged in
\* with it, a second admin has been onboarded since, and both rows carry
\* the identifiers they were created with.
C26_Witness ==
  /\ Cardinality(Admin) = 2
  /\ \E a \in Admin :
       /\ a.AdminID = 1 /\ a.StudentID = "CS000" /\ a.Email = "z@x.org"
       /\ a.UpdatedAt # NoTime
       /\ bcryptCompare("N3wpass@2", a.PasswordHash)
  /\ call.op = "login" /\ call.result.kind = "admin" /\ call.password = "N3wpass@2"

\* The middleware has run on the request.
InputValidated == call.op = "validate" /\ call.next # << >>

\* Some validator throws on the request's body.
ValidatorThrew ==
  IF call.body.kind = "onboard" THEN OnboardingInputError(call.body) # NoResult
  ELSE LoginInputError(call.body) # NoResult

C28_BranchIsOptionalAndChecked ==
  /\ [](\A p \in Procs :
          /\ (Succeeded(p) /\ validatedData[p].branchID = NoBranch) =>
               /\ result[p].admin.BranchID = NULL
               /\ createdAdmin[p].BranchID = NULL
          /\ FailedWith(p, "INVALID_BRANCH") =>
               /\ validatedData[p].branchID \notin Branch \cup {NoBranch}
               /\ passwordHash[p] = NoHash /\ createdAdmin[p] = NoAdmin
               /\ client[p] = << >>)
  /\ [][ \A p \in Procs :
           (pc[p] = "validateBranch" /\ pc'[p] # pc[p]) =>
             LET branchID == validatedData[p].branchID IN
               /\ branchID = NoBranch =>
                    /\ validateBranchQueries(branchID) = << >>
                    /\ pc'[p] = "hashPassword" /\ result'[p] = NoResult
               /\ branchID \notin Branch \cup {NoBranch} =>
                    /\ validateBranchQueries(branchID) = << "SELECT Branch" >>
                    /\ pc'[p] = "failed"
                    /\ result'[p] = createValidationError("INVALID_BRANCH")
                    /\ dbVars' = dbVars /\ txVars' = txVars ]_vars

\* C28 witness: one candidate without a branch identifier was onboarded with
\* a null branch, and another, naming a branch that does not exist, was
\* turned away with INVALID_BRANCH.
C28_Witness ==
  \E p, q \in Procs :
    /\ Succeeded(p) /\ validatedData[p].branchID = NoBranch
    /\ \E a \in Admin : a.AdminID = result[p].admin.AdminID /\ a.BranchID = NULL
    /\ FailedWith(q, "INVALID_BRANCH") /\ validatedData[q].branchID = 2
    /\ Cardinality(Admin) = 1

\* C29: for valid passwords p and q, p verifies against hashPassword(q)
\* exactly when p = q.
C29_HashRoundTrips ==
  (call.op = "hashPassword" /\ call.verified # "unknown") =>
    (call.verified = "yes" <=> call.p = call.q)

\* The request failed with TRANSACTION_FAILED and no admin has been
\* onboarded with its invitation code.
WriteFailed(p) ==
  /\ FailedWith(p, "TRANSACTION_FAILED")
  /\ \A a \in Admin : a.InvitationCode # validatedData[p].invitationCode

\* The second request names the code of the first, with the code's role, a
\* branch that exists or none, and a student identifier and an email that no
\* other admin has.
RetriesWithFreshIdentifiers ==
  /\ pc["r2"] # "idle"
  /\ validatedData["r2"].invitationCode = validatedData["r1"].invitationCode
  /\ \A ic \in CodeRowsOf(validatedData["r2"].invitationCode) :
       validatedData["r2"].roleID = ic.RoleID
  /\ validatedData["r2"].branchID \in Branch \cup {NoBranch}
  /\ \A a \in Admin :
       a.AdminID # createdAdmin["r2"].AdminID =>
         /\ a.StudentID # validatedData["r2"].studentID
         /\ a.Email # validatedData["r2"].email

\* C30: after an onboarding with code c has failed with TRANSACTION_FAILED,
\* c is unused and has no UsedByAdminID (as long as no admin is onboarded
\* with it), and a later onboarding with c and fresh identifiers
\* does not fail: it passes every check and, once finished, has succeeded
\* and consumed c.
C30_FailedWriteDoesNotBurnTheCode ==
  /\ \A p \in Procs :
       WriteFailed(p) =>
         \A ic \in CodeRowsOf(validatedData[p].invitationCode) :
           ~ic.IsUsed /\ ic.UsedByAdminID = NULL
  /\ (FailedWith("r1", "TRANSACTION_FAILED") /\ RetriesWithFreshIdentifiers) =>
       /\ pc["r2"] # "failed"
       /\ pc["r2"] = "done" =>
            /\ Succeeded("r2")
            /\ \A ic \in CodeRowsOf(validatedData["r2"].invitationCode) :
                 ic.IsUsed /\ ic.UsedByAdminID = result["r2"].admin.AdminID

\* C30 witness: the first request lost its transaction at COMMIT, with both
\* writes staged, and the second, with the same code and other identifiers,
\* was onboarded.
C30_Witness ==
  /\ FailedWith("r1", "TRANSACTION_FAILED")
  /\ client["r1"] = << "connect", "BEGIN", "INSERT", "UPDATE", "COMMIT", "ROLLBACK", "release" >>
  /\ RetriesWithFreshIdentifiers
  /\ validatedData["r2"].studentID # validatedData["r1"].studentID
  /\ Succeeded("r2")
  /\ \E a \in Admin : a.AdminID = result["r2"].admin.AdminID

\* The two calls in flight name the same admin.
SameAdmin == call.calls["u1"].AdminID = call.calls["u2"].AdminID

\* Both calls are password changes that carry the same oldPassword, the one
\* the admin was onboarded with, and different new passwords.
RacingPasswordChanges ==
  /\ call.op = "concurrent"
  /\ SameAdmin /\ call.calls["u1"].AdminID = EarlierAdmin.AdminID
  /\ \A u \in Updaters :
       /\ call.calls[u].updateData.password # Absent
       /\ bcryptCompare(call.calls[u].updateData.oldPassword, EarlierAdmin.PasswordHash)
  /\ call.calls["u1"].updateData.oldPassword = call.calls["u2"].updateData.oldPassword
  /\ call.calls["u1"].updateData.password # call.calls["u2"].updateData.password

\* C31: of two concurrent updateAdmin calls for the same admin that carry
\* the same correct oldPassword and different new passwords, at most one
\* returns the updated row: the other's oldPassword no longer verifies
\* against the hash stored when it would write.
C31_AtMostOnePasswordChangeSucceeds ==
  RacingPasswordChanges =>
    ~(\A u \in Updaters : call.calls[u].at = "returned")

\* One call patches the name only and the other the phone only, both of the
\* onboarded admin.
NameOnly == [ fullName |-> "Jane Roe", phone |-> Absent,
              password |-> Absent, oldPassword |-> Absent ]
PhoneOnly == [ fullName |-> Absent, phone |-> "+922",
               password |-> Absent, oldPassword |-> Absent ]
DisjointPatches ==
  /\ call.op = "concurrent"
  /\ SameAdmin /\ call.calls["u1"].AdminID = EarlierAdmin.AdminID
  /\ \E u, v \in Updaters :
       /\ call.calls[u].updateData = NameOnly
       /\ call.calls[v].updateData = PhoneOnly

\* The stored row of the onboarded admin.
StoredAdmin == CHOOSE a \in Admin : a.AdminID = EarlierAdmin.AdminID

\* C32: two concurrent updateAdmin calls for the same admin, one patching
\* fullName only and the other phone only, both take effect in every
\* interleaving: a call that has returned has its field in the stored row
\* whatever the other call did before or after, so after both have returned
\* the row holds the new FullName and the new Phone; no other column but
\* UpdatedAt changes, and a call ends otherwise only when a statement is
\* rejected.
C32_DisjointPatchesBothTakeEffect ==
  DisjointPatches =>
    /\ \A u \in Updaters :
         /\ call.calls[u].at = "returned" =>
              /\ call.calls[u].updateData = NameOnly => StoredAdmin.FullName = "Jane Roe"
              /\ call.calls[u].updateData = PhoneOnly => StoredAdmin.Phone = "+922"
         /\ call.calls[u].at = "thrown" =>
              call.calls[u].result.message = "Error updating admin details"
    /\ (\A u \in Updaters : call.calls[u].at = "returned") =>
         StoredAdmin = [ EarlierAdmin EXCEPT !.FullName = "Jane Roe", !.Phone = "+922",
                                             !.UpdatedAt = StoredAdmin.UpdatedAt ]

\* C32 witness: the name-only call and the phone-only call have both
\* returned, the phone-only call last (its result shows the new name too),
\* and the row holds both new values.
C32_Witness ==
  /\ DisjointPatches
  /\ call.calls["u1"].updateData = NameOnly
  /\ \A u \in Updaters : call.calls[u].at = "returned"
  /\ call.calls["u1"].result.admin.Phone = EarlierAdmin.Phone
  /\ call.calls["u2"].result.admin.FullName = "Jane Roe"
  /\ StoredAdmin.FullName = "Jane Roe" /\ StoredAdmin.Phone = "+922"

\* The onboard handler answers request p with a token in this step.
OnboardIssues(p) ==
  /\ res[p] = NoResult /\ res'[p] # NoResult
  /\ "token" \in DOMAIN res'[p]

\* The login handler answers with a token in this step.
LoginIssues ==
  /\ call.op = "concurrent" /\ call.login.at = "bcrypt.compare"
  /\ call'.login.at = "answered"
  /\ "token" \in DOMAIN call'.login.res

\* The onboarding of p has committed its transaction and returned.
Committed(p) ==
  /\ pc[p] = "done" /\ result[p].kind = "admin"
  /\ \E i \in DOMAIN client[p] : client[p][i] = "COMMIT"
  /\ \A i \in DOMAIN client[p] : client[p][i] # "ROLLBACK"

\* The token names a stored admin by the columns no operation rewrites.
NamesStoredAdmin(token, admins) ==
  \E a \in admins :
    /\ token.adminID = a.AdminID /\ token.studentID = a.StudentID
    /\ token.email = a.Email /\ token.roleID = a.RoleID

\* All five identity claims of the token are those of one stored row.
EqualsStoredAdmin(token, admins) ==
  \E a \in admins :
    /\ token.adminID = a.AdminID /\ token.studentID = a.StudentID
    /\ token.email = a.Email /\ token.roleID = a.RoleID
    /\ token.fullName = a.FullName

\* C33 as stated: the onboard handler issues a token only once the atomic
\* creation has committed, the login handler only once the password has
\* verified against the hash read from the store, and the token's adminID,
\* studentID, email, roleID and fullName are those of an admin row in the
\* store when the token is issued.
C33_TokenEqualsStoredRowAtIssuance ==
  [][ /\ \A p \in Procs : OnboardIssues(p) =>
           /\ Committed(p)
           /\ EqualsStoredAdmin(res'[p].token, Admin)
      /\ LoginIssues =>
           /\ bcryptCompare(call.login.password, call.login.admin.PasswordHash)
           /\ EqualsStoredAdmin(call'.login.res.token, Admin) ]_vars

\* C33, amended: a token is issued only after the gate (the creation has
\* committed; the password has verified against the hash the login query
\* read from the store), its adminID, studentID, email and roleID are those
\* of an admin row in the store when it is issued, and its fullName is the
\* FullName of that admin as the service returned it: as inserted by the
\* onboarding, or as the login query read it from the store.
C33_TokenAfterGateNamesStoredAdmin ==
  [][ /\ \A p \in Procs : OnboardIssues(p) =>
           /\ Committed(p)
           /\ NamesStoredAdmin(res'[p].token, Admin)
           /\ res'[p].token.adminID = createdAdmin[p].AdminID
           /\ res'[p].token.fullName = createdAdmin[p].FullName
      /\ (call.op = "concurrent" /\ call.login.at = "SELECT"
          /\ call'.login.at = "bcrypt.compare") =>
           call'.login.admin \in Admin
      /\ LoginIssues =>
           /\ bcryptCompare(call.login.password, call.login.admin.PasswordHash)
           /\ NamesStoredAdmin(call'.login.res.token, Admin)
           /\ call'.login.res.token.adminID = call.login.admin.AdminID
           /\ call'.login.res.token.fullName = call.login.admin.FullName ]_vars

\* C33 witness: the new admin has its token from the onboard handler, and a
\* login of the earlier admin was answered with a token that carries the
\* name read before an update renamed the admin.
C33_Witness ==
  /\ call.op = "concurrent" /\ call.login.at = "answered"
  /\ "token" \in DOMAIN call.login.res
  /\ call.login.res.token.adminID = EarlierAdmin.AdminID
  /\ call.login.res.token.fullName = "John Doe"
  /\ StoredAdmin.FullName = "Jane Roe"
  /\ \E p \in Procs : res[p] # NoResult /\ "token" \in DOMAIN res[p]
                      /\ res[p].token.adminID = 2

\* What was thrown is an APIError: it has a status code and its error code
\* is one of ERROR_CODES.
IsAPIError(e) ==
  /\ e.kind = "error"
  /\ e.statusCode \in 400 .. 599
  /\ e.errorCode \in ERROR_CODES

\* C34: whatever onboardAdmin, loginAdmin or updateAdmin throws, on any
\* failure path (a failed check, a rejected statement, a pool that hands out
\* no connection, a ROLLBACK that is itself rejected), is an APIError with a
\* status code and an error code of ERROR_CODES.
C34_EveryFailureIsAnAPIError ==
  /\ \A p \in Procs : pc[p] = "failed" => IsAPIError(result[p])
  /\ call.op = "concurrent" =>
       /\ (call.login.at = "answered" /\ call.login.result.kind # "admin") =>
            IsAPIError(call.login.result)
       /\ \A u \in DOMAIN call.calls :
            call.calls[u].at = "thrown" => IsAPIError(call.calls[u].result)

\* C35: once steps 1 and 2 of onboardAdmin have passed, the role-existence
\* check of step 5 cannot fail with INVALID_ROLE: a request that has reached
\* step 5 submits the RoleID of the code row it read, a row the lookup
\* returned only because it joins a Role row; so the lookup of step 5 finds
\* the role, and a request that failed with INVALID_ROLE failed at step 2.
C35_RoleExistsAtStep5 ==
  \A p \in Procs :
    /\ pc[p] = "validateRole" =>
         /\ validatedData[p].roleID = invitationCode[p].RoleID
         /\ invitationCode[p].RoleID \in Role
         /\ validateRole(validatedData[p].roleID) = NoResult
    /\ FailedWith(p, "INVALID_ROLE") =>
         /\ invitationCode[p] # NoRow
         /\ ~RoleMatches(validatedData[p], invitationCode[p])

\* C35 witness: a request has passed step 5 with the role of its code while
\* the other code is bound to a role the Role store does not hold.
C35_Witness ==
  /\ pc["r1"] = "validateBranch"
  /\ validatedData["r1"].invitationCode = "INVITE01"
  /\ validatedData["r1"].roleID = 2
  /\ InvitationCode[2].RoleID \notin Role

\* The success status of the handler that answers request r.
SuccessStatus(r) == IF r \in Procs THEN 201 ELSE 200

\* What the service called for request r returned or threw, once settled.
ServiceOutcome(r) ==
  IF r \in Procs THEN result[r]
  ELSE IF r = "login" THEN call.login.result
  ELSE call.calls[r].result

\* The handler of request r has answered at most once, and its answer is
\* the success response of its endpoint or an error passed to next; the
\* success response is sent only when the service returned, and an error
\* the service threw is the one passed to next.
AnsweredAtMostOnce(r) ==
  LET answers == call.answers[r] IN
  /\ Len(answers) <= 1
  /\ Len(answers) = 1 =>
       /\ answers[1].answer = "res.json" =>
            /\ answers[1].status = SuccessStatus(r)
            /\ ServiceOutcome(r).kind = "admin"
       /\ (answers[1].answer = "next" /\ ServiceOutcome(r) # NoResult
           /\ ServiceOutcome(r).kind # "admin") =>
            answers[1].error = ServiceOutcome(r)

\* C36: each of the three handlers answers its request exactly once: never
\* twice and never with both a response and next(error), whichever step of
\* the service fails, and every request is eventually answered.
C36_HandlersAnswerExactlyOnce ==
  /\ [](\A r \in DOMAIN call.answers : AnsweredAtMostOnce(r))
  /\ <>[](\A r \in DOMAIN call.answers : Len(call.answers[r]) = 1)

\* C36 witness: all three handlers have answered; the onboarding failed
\* inside its transaction, the login succeeded, the update was refused.
C36_Witness ==
  /\ call.op = "concurrent"
  /\ \A r \in DOMAIN call.answers : Len(call.answers[r]) = 1
  /\ txError["r1"] # NoResult /\ call.answers["r1"][1].answer = "next"
  /\ call.answers["login"][1] = Json(200)
  /\ call.answers["u1"][1].answer = "next"
  /\ call.answers["r2"][1] = Json(201)

\* C37: expiry is optional and strict.  Of a request that names an active,
\* unused invitation code: with no expiry timestamp the code is eligible at
\* every time; with an expiry equal to the current time it is still
\* eligible; and INVITATION_CODE_EXPIRED is reported exactly when the expiry
\* is set and strictly earlier than the current time.  No code without an
\* expiry, and none whose expiry has not passed, is ever reported expired.
C37_ExpiryIsStrictAndOptional ==
  \A p \in Procs : pc[p] # "idle" =>
    \A ic \in CodeRowsOf(validatedData[p].invitationCode) :
      /\ (ic.IsActive /\ ~ic.IsUsed) =>
           /\ ic.ExpiresAt = NoTime => Verdict(p) = "eligible"
           /\ ic.ExpiresAt = now => Verdict(p) = "eligible"
           /\ Verdict(p) = "INVITATION_CODE_EXPIRED" <=>
                (ic.ExpiresAt # NoTime /\ ic.ExpiresAt < now)
      /\ Verdict(p) = "INVITATION_CODE_EXPIRED" =>
           (ic.ExpiresAt # NoTime /\ ic.ExpiresAt < now)

\* C37 witness: a code whose expiry is the current time was found eligible,
\* and the other request was told that its code, whose expiry is earlier,
\* has expired.
C37_Witness ==
  \E p, q \in Procs :
    /\ pc[p] = "roleMatch" /\ invitationCode[p].ExpiresAt = now
    /\ FailedWith(q, "INVITATION_CODE_EXPIRED")
    /\ \E ic \in CodeRowsOf(validatedData[q].invitationCode) :
         ic.ExpiresAt # NoTime /\ ic.ExpiresAt < now

====
